---- MODULE Spec2Model ----
(***************************************************************************)
(* Model of the Montage workflow generators and their compilers.           *)
(*                                                                         *)
(*   montage-workflow-yaml.py      class AbstractWorkflow (builder)        *)
(*   montage-workflow-wfformat.py  class WfFormatWorkflow (builder)        *)
(*   yaml2hyperflow.py             class HyperFlowCompiler                 *)
(*   wfformat2hyperflow.py         class WfFormatToHyperFlowCompiler       *)
(*                                                                         *)
(* A run is one of the two generator scripts: it builds one workflow       *)
(* object through add_file / add_task / mark_output and, as main() does,   *)
(* ends with write(); the matching compiler is then constructed on the     *)
(* written document and compile() is called on it.  Python dicts keep insertion order, so   *)
(* a dict is a sequence of entries with distinct keys.  Task names,        *)
(* executables, argument lists and configs are carried verbatim by the     *)
(* code and decide nothing modelled here; they are left out.               *)
(***************************************************************************)
EXTENDS Integers, Sequences, FiniteSets, TLC

\* ---------------------------------------------------------------- bounds
MaxTasks == 2
MaxCompiles == 2

\* ------------------------------------------------------- input universes
FileNames == {"x", "y"}
\* Python None, the default of source_url
None == "None"

\* the (source_url, is_input, is_output) combinations add_file is called with:
\* a derived file, a sourced input, an input without a source, an output
AddFileArgs ==
    {<<None, FALSE, FALSE>>, <<"url", TRUE, FALSE>>,
     <<None, TRUE, FALSE>>, <<None, FALSE, TRUE>>}

\* the input/output lists a task is declared with: the sub-lists of FileOrder
FileOrder == <<"x", "y">>
FileLists ==
    {<<>>} \cup {<<FileOrder[i]>> : i \in DOMAIN FileOrder}
           \cup {<<FileOrder[p[1]], FileOrder[p[2]]>> :
                    p \in {q \in (DOMAIN FileOrder) \X (DOMAIN FileOrder) : q[1] < q[2]}}

\* ---------------------------------------------------------------- helpers
Range(s) == {s[i] : i \in DOMAIN s}

\* Python: key in dict, for a dict kept as a sequence of records with .name
HasKey(d, k) == \E i \in DOMAIN d : d[i].name = k

\* Python: dict[key]
Get(d, k) == d[CHOOSE i \in DOMAIN d : d[i].name = k]

\* Python: dict[key] = value, for a dict kept as a function on its keys
Put(m, k, v) == [n \in DOMAIN m \cup {k} |-> IF n = k THEN v ELSE m[n]]

\* Python: lst.append(x) guarded by "if x not in lst"
AppendIfAbsent(lst, x) == IF x \in Range(lst) THEN lst ELSE Append(lst, x)

\* ------------------------------------------------------------------ state
VARIABLES
    builder,               \* which generator script runs
    pc,                    \* "build" until write() has run, then "written"
    tasks,                 \* AbstractWorkflow.tasks
    files,                 \* AbstractWorkflow.files
    inputs,                \* AbstractWorkflow.inputs
    outputs,               \* AbstractWorkflow.outputs
    task_counter,          \* AbstractWorkflow.task_counter
    specification_tasks,   \* WfFormatWorkflow.specification_tasks
    specification_files,   \* WfFormatWorkflow.specification_files
    file_metadata,         \* WfFormatWorkflow.file_metadata
    wf_outputs,            \* WfFormatWorkflow.outputs
    wf_task_counter,       \* WfFormatWorkflow.task_counter
    document,              \* the document write() dumped
    compilers,             \* the compiler instances built on the document
    workflow_file,         \* the document handed to the validators, parsed
    validator,             \* the WorkflowValidator object
    validation,            \* what the MCP tool validate_workflow returned
    generator,             \* the generator script: where main() is
    events,                \* what the generator script has done so far
    writer,                \* the write operation under way on the output path
    out_file,              \* the output file: absent, previous, empty, complete
    downloader,            \* the batch downloader: where main() is
    disk,                  \* the downloader's output directory, per path
    fetched,               \* the downloads made, oldest first
    server,                \* the generate_montage_workflow call under way
    workflow_dir,          \* the workflow directory the call filled
    pipeline               \* the task graph add_band and color_png build

vars == <<builder, pc, tasks, files, inputs, outputs, task_counter,
          specification_tasks, specification_files, file_metadata,
          wf_outputs, wf_task_counter, document, compilers,
          workflow_file, validator, validation, generator, events,
          writer, out_file, downloader, disk, fetched, server,
          workflow_dir, pipeline>>

yamlVars == <<tasks, files, inputs, outputs, task_counter>>
wfVars == <<specification_tasks, specification_files, file_metadata,
            wf_outputs, wf_task_counter>>

graphVars == <<builder, pc, yamlVars, wfVars, document, compilers>>
validatorVars == <<workflow_file, validator, validation>>
\* what the generator scripts and the compilers never touch
generatorVars == <<generator, events>>
writerVars == <<writer, out_file>>
downloaderVars == <<downloader, disk, fetched>>
serverVars == <<server, workflow_dir>>
pipelineVars == <<pipeline>>
otherVars == <<validatorVars, generatorVars, writerVars, downloaderVars,
               serverVars, pipelineVars>>

NoDocument == [written |-> FALSE]

\* ------------------------------------------------------ AbstractWorkflow
\* mutant: the id formatted without the counter
TaskId_no_counter(n) == <<"task_", 0>>

\* "task_{}".format(self.task_counter)
TaskId(n) == <<"task_", n>>

AbstractWorkflow_init ==
    /\ tasks = <<>>
    /\ files = <<>>
    /\ inputs = <<>>
    /\ outputs = <<>>
    /\ task_counter = 0

FileRecord(name, source_url, is_input, is_output) ==
    [name |-> name, source |-> source_url,
     is_input |-> is_input, is_output |-> is_output]

\* Python truthiness of source_url: None and "" are falsy, a URL is truthy
Truthy(source_url) == source_url \notin {None, ""}

\* mutant: the "if name not in self.files" test left out, a repeated call
\* overwrites the record
AbstractWorkflow_add_file_overwrite(name, source_url, is_input, is_output) ==
    /\ builder = "AbstractWorkflow"
    /\ pc = "build"
    /\ files' = IF HasKey(files, name)
                THEN [i \in DOMAIN files |->
                        IF files[i].name = name
                        THEN FileRecord(name, source_url, is_input, is_output)
                        ELSE files[i]]
                ELSE Append(files,
                            FileRecord(name, source_url, is_input, is_output))
    /\ inputs' = IF is_input /\ Truthy(source_url)
                 THEN Append(inputs, name) ELSE inputs
    /\ UNCHANGED <<builder, pc, tasks, outputs, task_counter, wfVars,
                   document, compilers>>

\* mutant: "if is_input and source_url" reduced to "if is_input"
AbstractWorkflow_add_file_any_source(name, source_url, is_input, is_output) ==
    /\ builder = "AbstractWorkflow"
    /\ pc = "build"
    /\ IF ~HasKey(files, name)
       THEN /\ files' = Append(files,
                           FileRecord(name, source_url, is_input, is_output))
            /\ inputs' = IF is_input THEN Append(inputs, name) ELSE inputs
       ELSE UNCHANGED <<files, inputs>>
    /\ UNCHANGED <<builder, pc, tasks, outputs, task_counter, wfVars,
                   document, compilers>>

AbstractWorkflow_add_file(name, source_url, is_input, is_output) ==
    /\ builder = "AbstractWorkflow"
    /\ pc = "build"
    /\ IF ~HasKey(files, name)
       THEN /\ files' = Append(files,
                           FileRecord(name, source_url, is_input, is_output))
            /\ inputs' = IF is_input /\ Truthy(source_url)
                         THEN Append(inputs, name) ELSE inputs
       ELSE UNCHANGED <<files, inputs>>
    /\ UNCHANGED <<builder, pc, tasks, outputs, task_counter, wfVars,
                   document, compilers>>

\* mutant: the "Mark output files" loop left out
MarkTaskOutputs_skipped(fs, outs) == fs

\* for output in outputs: if output in self.files: ...['is_output'] = True
MarkTaskOutputs(fs, outs) ==
    [i \in DOMAIN fs |->
        IF fs[i].name \in Range(outs)
        THEN [fs[i] EXCEPT !.is_output = TRUE]
        ELSE fs[i]]

AbstractWorkflow_add_task(ins, outs) ==
    /\ builder = "AbstractWorkflow"
    /\ pc = "build"
    /\ task_counter < MaxTasks
    /\ task_counter' = task_counter + 1
    /\ tasks' = Append(tasks, [id |-> TaskId(task_counter),
                               inputs |-> ins, outputs |-> outs])
    /\ files' = MarkTaskOutputs(files, outs)
    /\ UNCHANGED <<builder, pc, inputs, outputs, wfVars, document, compilers>>

AbstractWorkflow_mark_output(filename) ==
    /\ builder = "AbstractWorkflow"
    /\ pc = "build"
    /\ IF HasKey(files, filename)
       THEN /\ files' = [i \in DOMAIN files |->
                            IF files[i].name = filename
                            THEN [files[i] EXCEPT !.is_output = TRUE]
                            ELSE files[i]]
            /\ outputs' = AppendIfAbsent(outputs, filename)
       ELSE UNCHANGED <<files, outputs>>
    /\ UNCHANGED <<builder, pc, tasks, inputs, task_counter, wfVars,
                   document, compilers>>

\* any(fname in task['inputs'] for task in self.tasks)
UsedAsInput(ts, fname) == \E k \in DOMAIN ts : fname \in Range(ts[k].inputs)

\* mutant: the "or fname in self.outputs" alternative left out
RECURSIVE FinalOutputs_unconsumed_only(_, _, _, _)
FinalOutputs_unconsumed_only(fs, ts, marked, i) ==
    IF i > Len(fs) THEN <<>>
    ELSE LET rest == FinalOutputs_unconsumed_only(fs, ts, marked, i + 1)
         IN  IF fs[i].is_output /\ ~UsedAsInput(ts, fs[i].name)
             THEN <<fs[i].name>> \o rest
             ELSE rest

\* the final_outputs loop of to_dict, over the file entries from index i on
RECURSIVE FinalOutputs(_, _, _, _)
FinalOutputs(fs, ts, marked, i) ==
    IF i > Len(fs) THEN <<>>
    ELSE LET rest == FinalOutputs(fs, ts, marked, i + 1)
             fname == fs[i].name
         IN  IF fs[i].is_output
                /\ (~UsedAsInput(ts, fname) \/ fname \in Range(marked))
             THEN <<fname>> \o rest
             ELSE rest

AbstractWorkflow_to_dict ==
    [written |-> TRUE,
     format |-> "yaml",
     files |-> files,
     tasks |-> tasks,
     inputs |-> inputs,
     outputs |-> FinalOutputs(files, tasks, outputs, 1)]

AbstractWorkflow_write ==
    /\ builder = "AbstractWorkflow"
    /\ pc = "build"
    /\ document' = AbstractWorkflow_to_dict
    /\ pc' = "written"
    /\ UNCHANGED <<builder, yamlVars, wfVars, compilers>>

\* ------------------------------------------------------ WfFormatWorkflow
\* f"ID{self.task_counter:06d}": a fixed prefix and the zero-padded number
WfTaskId(n) == <<"ID", n>>

WfFormatWorkflow_init ==
    /\ specification_tasks = <<>>
    /\ specification_files = <<>>
    /\ file_metadata = <<>>
    /\ wf_outputs = <<>>
    /\ wf_task_counter = 0

\* the state of (specification_files, file_metadata, outputs) after
\* add_file(name, source_url, is_input, is_output), as <<files, metadata, outputs>>
AddFile(st, name, source_url, is_input, is_output) ==
    IF \E i \in DOMAIN st[1] : st[1][i].id = name
    THEN st
    ELSE <<Append(st[1], [id |-> name, sizeInBytes |-> 0]),
           Append(st[2], [name |-> name, source_url |-> source_url,
                          is_input |-> is_input, is_output |-> is_output]),
           IF is_output THEN AppendIfAbsent(st[3], name) ELSE st[3]>>

WfFormatWorkflow_add_file(name, source_url, is_input, is_output) ==
    /\ builder = "WfFormatWorkflow"
    /\ pc = "build"
    /\ LET st == AddFile(<<specification_files, file_metadata, wf_outputs>>,
                         name, source_url, is_input, is_output)
       IN  /\ specification_files' = st[1]
           /\ file_metadata' = st[2]
           /\ wf_outputs' = st[3]
    /\ UNCHANGED <<builder, pc, specification_tasks, wf_task_counter,
                   yamlVars, document, compilers>>

\* for f in lst: self.add_file(f), from index i on
RECURSIVE RegisterFiles(_, _, _)
RegisterFiles(st, lst, i) ==
    IF i > Len(lst) THEN st
    ELSE RegisterFiles(AddFile(st, lst[i], None, FALSE, FALSE), lst, i + 1)

WfFormatWorkflow_add_task(ins, outs) ==
    /\ builder = "WfFormatWorkflow"
    /\ pc = "build"
    /\ wf_task_counter < MaxTasks
    /\ wf_task_counter' = wf_task_counter + 1
    /\ LET st0 == <<specification_files, file_metadata, wf_outputs>>
           st == RegisterFiles(RegisterFiles(st0, ins, 1), outs, 1)
       IN  /\ specification_files' = st[1]
           /\ file_metadata' = st[2]
           /\ wf_outputs' = st[3]
    /\ specification_tasks' =
           Append(specification_tasks,
                  [id |-> WfTaskId(wf_task_counter),
                   parents |-> <<>>, children |-> <<>>,
                   inputFiles |-> ins, outputFiles |-> outs])
    /\ UNCHANGED <<builder, pc, yamlVars, document, compilers>>

WfFormatWorkflow_mark_output(filename) ==
    /\ builder = "WfFormatWorkflow"
    /\ pc = "build"
    /\ wf_outputs' = AppendIfAbsent(wf_outputs, filename)
    /\ UNCHANGED <<builder, pc, specification_tasks, specification_files,
                   file_metadata, wf_task_counter, yamlVars, document,
                   compilers>>

\* producers[output_file] = task_id, written task after task: the last wins
HasProducer(ts, f) == \E k \in DOMAIN ts : f \in Range(ts[k].outputFiles)

Producer(ts, f) ==
    LET K == {k \in DOMAIN ts : f \in Range(ts[k].outputFiles)}
    IN  ts[CHOOSE k \in K : \A j \in K : j <= k].id

\* consumers[input_file]: one entry per occurrence, in task order
RECURSIVE Occurrences(_, _, _, _)
Occurrences(lst, f, id, i) ==
    IF i > Len(lst) THEN <<>>
    ELSE (IF lst[i] = f THEN <<id>> ELSE <<>>)
         \o Occurrences(lst, f, id, i + 1)

RECURSIVE Consumers(_, _, _)
Consumers(ts, f, k) ==
    IF k > Len(ts) THEN <<>>
    ELSE Occurrences(ts[k].inputFiles, f, ts[k].id, 1) \o Consumers(ts, f, k + 1)

\* mutant: the "parent_id not in parents" test left out
RECURSIVE Parents_no_dedup(_, _, _, _)
Parents_no_dedup(ts, task, acc, i) ==
    IF i > Len(task.inputFiles) THEN acc
    ELSE LET f == task.inputFiles[i]
         IN  IF HasProducer(ts, f) /\ Producer(ts, f) # task.id
             THEN Parents_no_dedup(ts, task, Append(acc, Producer(ts, f)), i + 1)
             ELSE Parents_no_dedup(ts, task, acc, i + 1)

\* the "Parents" loop over task['inputFiles'], from index i on
RECURSIVE Parents(_, _, _, _)
Parents(ts, task, acc, i) ==
    IF i > Len(task.inputFiles) THEN acc
    ELSE LET f == task.inputFiles[i]
         IN  IF HasProducer(ts, f)
                /\ Producer(ts, f) # task.id
                /\ Producer(ts, f) \notin Range(acc)
             THEN Parents(ts, task, Append(acc, Producer(ts, f)), i + 1)
             ELSE Parents(ts, task, acc, i + 1)

\* for child_id in consumers[output_file], from index j on
RECURSIVE AddChildren(_, _, _, _)
AddChildren(task, acc, cons, j) ==
    IF j > Len(cons) THEN acc
    ELSE IF cons[j] # task.id /\ cons[j] \notin Range(acc)
         THEN AddChildren(task, Append(acc, cons[j]), cons, j + 1)
         ELSE AddChildren(task, acc, cons, j + 1)

\* the "Children" loop over task['outputFiles'], from index i on
RECURSIVE Children(_, _, _, _)
Children(ts, task, acc, i) ==
    IF i > Len(task.outputFiles) THEN acc
    ELSE Children(ts, task,
                  AddChildren(task, acc,
                              Consumers(ts, task.outputFiles[i], 1), 1),
                  i + 1)

compute_dependencies(ts) ==
    [k \in DOMAIN ts |->
        [ts[k] EXCEPT !.parents = Parents(ts, ts[k], <<>>, 1),
                      !.children = Children(ts, ts[k], <<>>, 1)]]

WfFormatWorkflow_to_wfformat ==
    [written |-> TRUE,
     format |-> "wfformat",
     tasks |-> compute_dependencies(specification_tasks),
     files |-> specification_files]

WfFormatWorkflow_write ==
    /\ builder = "WfFormatWorkflow"
    /\ pc = "build"
    /\ document' = WfFormatWorkflow_to_wfformat
    /\ pc' = "written"
    \* to_wfformat() runs _compute_dependencies() on the task records in place
    /\ specification_tasks' = compute_dependencies(specification_tasks)
    /\ UNCHANGED <<builder, specification_files, file_metadata, wf_outputs,
                   wf_task_counter, yamlVars, compilers>>

\* ----------------------------------------------------- HyperFlowCompiler
\* A signal is {'name': fname} plus, for an input, 'data': [{}]; the data
\* field is the list of tokens the signal carries, empty when the key is absent.
Token == "{}"

EmptyDict == [n \in {} |-> 0]

\* mutant: the lists and the map are class attributes, shared by the instances
HyperFlowCompiler_init_shared(workflow_dict) ==
    IF compilers = <<>>
    THEN [files |-> workflow_dict.files,
          tasks |-> workflow_dict.tasks,
          file_to_signal |-> EmptyDict,
          signals |-> <<>>,
          processes |-> <<>>,
          input_signals |-> <<>>,
          output_signals |-> <<>>]
    ELSE [compilers[Len(compilers)].c EXCEPT
             !.files = workflow_dict.files, !.tasks = workflow_dict.tasks]

HyperFlowCompiler_init(workflow_dict) ==
    [files |-> workflow_dict.files,
     tasks |-> workflow_dict.tasks,
     file_to_signal |-> EmptyDict,
     signals |-> <<>>,
     processes |-> <<>>,
     input_signals |-> <<>>,
     output_signals |-> <<>>]

\* mutant: self.signals.append(signal) moved into the "if is_input" block
RECURSIVE HyperFlowCompiler_build_signal_map_inputs_only(_, _)
HyperFlowCompiler_build_signal_map_inputs_only(c, i) ==
    IF i > Len(c.files) THEN c
    ELSE LET finfo == c.files[i]
             signal_id == i - 1
         IN  HyperFlowCompiler_build_signal_map_inputs_only(
                 [c EXCEPT
                    !.file_to_signal = Put(@, finfo.name, signal_id),
                    !.signals =
                        IF finfo.is_input
                        THEN Append(@, [name |-> finfo.name, data |-> <<Token>>])
                        ELSE @,
                    !.input_signals =
                        IF finfo.is_input THEN Append(@, signal_id) ELSE @],
                 i + 1)

\* mutant: signal_id starts at 1
RECURSIVE HyperFlowCompiler_build_signal_map_from_one(_, _)
HyperFlowCompiler_build_signal_map_from_one(c, i) ==
    IF i > Len(c.files) THEN c
    ELSE LET finfo == c.files[i]
             signal_id == i
         IN  HyperFlowCompiler_build_signal_map_from_one(
                 [c EXCEPT
                    !.file_to_signal = Put(@, finfo.name, signal_id),
                    !.signals = Append(@,
                        [name |-> finfo.name,
                         data |-> IF finfo.is_input THEN <<Token>> ELSE <<>>]),
                    !.input_signals =
                        IF finfo.is_input THEN Append(@, signal_id) ELSE @],
                 i + 1)

\* the loop of _build_signal_map over self.files.items(), from entry i on;
\* signal_id starts at 0 and is incremented per entry
RECURSIVE HyperFlowCompiler_build_signal_map(_, _)
HyperFlowCompiler_build_signal_map(c, i) ==
    IF i > Len(c.files) THEN c
    ELSE LET finfo == c.files[i]
             signal_id == i - 1
         IN  HyperFlowCompiler_build_signal_map(
                 [c EXCEPT
                    !.file_to_signal = Put(@, finfo.name, signal_id),
                    !.signals = Append(@,
                        [name |-> finfo.name,
                         data |-> IF finfo.is_input THEN <<Token>> ELSE <<>>]),
                    !.input_signals =
                        IF finfo.is_input THEN Append(@, signal_id) ELSE @],
                 i + 1)

\* mutant: the "is not None" test left out; -1 stands for the appended None
RECURSIVE SignalIds_keep_none(_, _, _)
SignalIds_keep_none(file_to_signal, lst, i) ==
    IF i > Len(lst) THEN <<>>
    ELSE (IF lst[i] \in DOMAIN file_to_signal
          THEN <<file_to_signal[lst[i]]>> ELSE <<-1>>)
         \o SignalIds_keep_none(file_to_signal, lst, i + 1)

\* for f in lst: signal_id = file_to_signal.get(f); if signal_id is not None:
\* append, from index i on
RECURSIVE SignalIds(_, _, _)
SignalIds(file_to_signal, lst, i) ==
    IF i > Len(lst) THEN <<>>
    ELSE (IF lst[i] \in DOMAIN file_to_signal
          THEN <<file_to_signal[lst[i]]>> ELSE <<>>)
         \o SignalIds(file_to_signal, lst, i + 1)

HyperFlowCompiler_task_to_process(c, task) ==
    [ins |-> SignalIds(c.file_to_signal, task.inputs, 1),
     outs |-> SignalIds(c.file_to_signal, task.outputs, 1)]

\* mutant: the is_output flag is not looked at
IsOutputFlag_any_registered(fs, output) == HasKey(fs, output)

\* self.files.get(output, {}).get('is_output', False)
IsOutputFlag(fs, output) == HasKey(fs, output) /\ Get(fs, output).is_output

\* the "final outputs" loop of _build_processes over one task's outputs
RECURSIVE HyperFlowCompiler_final_outputs(_, _, _, _)
HyperFlowCompiler_final_outputs(c, outs, acc, i) ==
    IF i > Len(outs) THEN acc
    ELSE HyperFlowCompiler_final_outputs(c, outs,
             IF /\ IsOutputFlag(c.files, outs[i])
                /\ outs[i] \in DOMAIN c.file_to_signal
                /\ c.file_to_signal[outs[i]] \notin Range(acc)
             THEN Append(acc, c.file_to_signal[outs[i]])
             ELSE acc,
             i + 1)

\* the loop of _build_processes over self.tasks, from task k on
RECURSIVE HyperFlowCompiler_build_processes(_, _)
HyperFlowCompiler_build_processes(c, k) ==
    IF k > Len(c.tasks) THEN c
    ELSE HyperFlowCompiler_build_processes(
             [c EXCEPT
                !.processes =
                    Append(@, HyperFlowCompiler_task_to_process(c, c.tasks[k])),
                !.output_signals =
                    HyperFlowCompiler_final_outputs(c, c.tasks[k].outputs, @, 1)],
             k + 1)

generate_hyperflow_dict(c) ==
    [processes |-> c.processes,
     signals |-> c.signals,
     ins |-> c.input_signals,
     outs |-> c.output_signals]

\* compile(): the instance after the call
HyperFlowCompiler_compile(c) ==
    HyperFlowCompiler_build_processes(HyperFlowCompiler_build_signal_map(c, 1), 1)

\* ------------------------------------------- WfFormatToHyperFlowCompiler
\* {f['id']: f for f in spec.get('files', [])}: one entry per id, at the
\* position of the id's first occurrence
DictById(fileList) ==
    LET keep == {i \in DOMAIN fileList :
                    \A j \in DOMAIN fileList : fileList[j].id = fileList[i].id => j >= i}
        F[i \in 0..Len(fileList)] ==
            IF i = 0 THEN <<>>
            ELSE IF i \in keep THEN Append(F[i - 1], fileList[i]) ELSE F[i - 1]
    IN  F[Len(fileList)]

WfFormatToHyperFlowCompiler_init(wfformat_dict) ==
    [spec_files |-> DictById(wfformat_dict.files),
     spec_tasks |-> wfformat_dict.tasks,
     file_to_signal |-> EmptyDict,
     signals |-> <<>>,
     processes |-> <<>>,
     input_signals |-> <<>>,
     output_signals |-> <<>>]

\* is_input after the loop over spec_tasks: no task lists the file in outputFiles
NoProducer(ts, file_id) ==
    ~ \E k \in DOMAIN ts : file_id \in Range(ts[k].outputFiles)

\* file_id in [f for t in self.spec_tasks for f in t.get('inputFiles', [])]
Consumed(ts, file_id) ==
    \E k \in DOMAIN ts : file_id \in Range(ts[k].inputFiles)

\* the loop of _build_signal_map over self.spec_files.items(), from entry i on
RECURSIVE WfFormatToHyperFlowCompiler_build_signal_map(_, _)
WfFormatToHyperFlowCompiler_build_signal_map(c, i) ==
    IF i > Len(c.spec_files) THEN c
    ELSE LET file_id == c.spec_files[i].id
             signal_id == i - 1
             seeded == NoProducer(c.spec_tasks, file_id)
                       /\ Consumed(c.spec_tasks, file_id)
         IN  WfFormatToHyperFlowCompiler_build_signal_map(
                 [c EXCEPT
                    !.file_to_signal = Put(@, file_id, signal_id),
                    !.signals = Append(@,
                        [name |-> file_id,
                         data |-> IF seeded THEN <<Token>> ELSE <<>>]),
                    !.input_signals =
                        IF seeded THEN Append(@, signal_id) ELSE @],
                 i + 1)

WfFormatToHyperFlowCompiler_task_to_process(c, task) ==
    [ins |-> SignalIds(c.file_to_signal, task.inputFiles, 1),
     outs |-> SignalIds(c.file_to_signal, task.outputFiles, 1)]

\* mutant: the consumed files are not subtracted
WorkflowOutputs_all_outputs(ts) ==
    UNION {Range(ts[k].outputFiles) : k \in DOMAIN ts}

\* workflow_outputs = all_outputs - all_inputs
WorkflowOutputs(ts) ==
    UNION {Range(ts[k].outputFiles) : k \in DOMAIN ts}
        \ UNION {Range(ts[k].inputFiles) : k \in DOMAIN ts}

\* the "final outputs" loop of _build_processes over one task's outputFiles
RECURSIVE WfFormatToHyperFlowCompiler_final_outputs(_, _, _, _)
WfFormatToHyperFlowCompiler_final_outputs(c, outs, acc, i) ==
    IF i > Len(outs) THEN acc
    ELSE WfFormatToHyperFlowCompiler_final_outputs(c, outs,
             IF /\ outs[i] \in WorkflowOutputs(c.spec_tasks)
                /\ outs[i] \in DOMAIN c.file_to_signal
                /\ c.file_to_signal[outs[i]] \notin Range(acc)
             THEN Append(acc, c.file_to_signal[outs[i]])
             ELSE acc,
             i + 1)

\* the loop of _build_processes over self.spec_tasks, from task k on
RECURSIVE WfFormatToHyperFlowCompiler_build_processes(_, _)
WfFormatToHyperFlowCompiler_build_processes(c, k) ==
    IF k > Len(c.spec_tasks) THEN c
    ELSE WfFormatToHyperFlowCompiler_build_processes(
             [c EXCEPT
                !.processes = Append(@,
                    WfFormatToHyperFlowCompiler_task_to_process(c, c.spec_tasks[k])),
                !.output_signals =
                    WfFormatToHyperFlowCompiler_final_outputs(
                        c, c.spec_tasks[k].outputFiles, @, 1)],
             k + 1)

WfFormatToHyperFlowCompiler_compile(c) ==
    WfFormatToHyperFlowCompiler_build_processes(
        WfFormatToHyperFlowCompiler_build_signal_map(c, 1), 1)

\* ------------------------------------------------------- compile actions
\* compilers[n] = [c |-> the instance, returned |-> the programs its compile()
\* calls returned, oldest first]
TotalCompiles ==
    LET F[n \in 0..Len(compilers)] ==
            IF n = 0 THEN 0 ELSE F[n - 1] + Len(compilers[n].returned)
    IN  F[Len(compilers)]

\* compile_yaml_to_hyperflow: a new compiler on the loaded document, one compile()
compile_yaml_to_hyperflow ==
    /\ builder = "AbstractWorkflow"
    /\ pc = "written"
    /\ TotalCompiles < MaxCompiles
    /\ LET c == HyperFlowCompiler_compile(HyperFlowCompiler_init(document))
       IN  compilers' = Append(compilers,
               [c |-> c, returned |-> <<generate_hyperflow_dict(c)>>])
    /\ UNCHANGED <<builder, pc, yamlVars, wfVars, document>>

\* compile() called once more on an existing HyperFlowCompiler
HyperFlowCompiler_recompile(n) ==
    /\ builder = "AbstractWorkflow"
    /\ pc = "written"
    /\ TotalCompiles < MaxCompiles
    /\ LET c == HyperFlowCompiler_compile(compilers[n].c)
       IN  compilers' = [compilers EXCEPT ![n] =
               [c |-> c,
                returned |-> Append(@.returned, generate_hyperflow_dict(c))]]
    /\ UNCHANGED <<builder, pc, yamlVars, wfVars, document>>

\* compile_wfformat_to_hyperflow: a new compiler on the loaded document
compile_wfformat_to_hyperflow ==
    /\ builder = "WfFormatWorkflow"
    /\ pc = "written"
    /\ TotalCompiles < MaxCompiles
    /\ LET c == WfFormatToHyperFlowCompiler_compile(
                    WfFormatToHyperFlowCompiler_init(document))
       IN  compilers' = Append(compilers,
               [c |-> c, returned |-> <<generate_hyperflow_dict(c)>>])
    /\ UNCHANGED <<builder, pc, yamlVars, wfVars, document>>

\* compile() called once more on an existing WfFormatToHyperFlowCompiler
WfFormatToHyperFlowCompiler_recompile(n) ==
    /\ builder = "WfFormatWorkflow"
    /\ pc = "written"
    /\ TotalCompiles < MaxCompiles
    /\ LET c == WfFormatToHyperFlowCompiler_compile(compilers[n].c)
       IN  compilers' = [compilers EXCEPT ![n] =
               [c |-> c,
                returned |-> Append(@.returned, generate_hyperflow_dict(c))]]
    /\ UNCHANGED <<builder, pc, yamlVars, wfVars, document>>

\* ------------------------------------------------------ workflow documents
\* A parsed YAML value is a record with its Python type and, for a sequence or
\* a mapping, its items.  "absent" is a key the enclosing mapping lacks.
MaxDocTasks == 2

AbsentKey == [type |-> "absent", v |-> <<>>]
NoneValue == [type |-> "none", v |-> <<>>]
ScalarValue == [type |-> "str", v |-> <<>>]
ListOf(v) == [type |-> "list", v |-> v]
DictOf(v) == [type |-> "dict", v |-> v]
NoName == [type |-> "absent", s |-> ""]
Str(s) == [type |-> "str", s |-> s]

\* one entry of the files mapping: its key and the value under it, a string
\* (type "str") or a mapping with or without a 'name' field
FileEntry(key, type, has_name, is_input, source) ==
    [key |-> key, type |-> type, has_name |-> has_name, name |-> key,
     is_input |-> is_input, source |-> source]

XEntries ==
    {FileEntry("x", "dict", TRUE, FALSE, None),
     FileEntry("x", "dict", TRUE, TRUE, None),
     FileEntry("x", "dict", TRUE, TRUE, "url")}
YEntries ==
    {FileEntry("y", "dict", TRUE, FALSE, None),
     FileEntry("y", "dict", FALSE, FALSE, None),
     FileEntry("y", "str", FALSE, FALSE, None)}

\* the files section: missing, null, a scalar, or a mapping
FilesSections ==
    {AbsentKey, NoneValue, ScalarValue}
        \cup {DictOf(<<>>)}
        \cup {DictOf(<<e>>) : e \in XEntries \cup YEntries}
        \cup {DictOf(<<e, f>>) : e \in XEntries, f \in YEntries}

TaskInputs == {AbsentKey, NoneValue, ListOf(<<"x">>), ListOf(<<"z">>)}
TaskOutputs == {NoneValue, ListOf(<<>>), ListOf(<<"y">>), ListOf(<<"z">>)}

\* a task: a string, or a mapping with name, executable, id and the two lists
TaskEntries ==
    {[type |-> "str", id |-> "", inputs |-> AbsentKey, outputs |-> AbsentKey]}
        \cup {[type |-> "dict", id |-> id, inputs |-> ins, outputs |-> outs] :
                 id \in {"t0", "t1"}, ins \in TaskInputs, outs \in TaskOutputs}

TasksSections ==
    {AbsentKey}
        \cup {ListOf(ts) : ts \in UNION {[1..n -> TaskEntries] :
                                            n \in 0..MaxDocTasks}}

\* what yaml.safe_load yields: a YAMLError, None for an empty document, a
\* sequence, or a mapping
Documents ==
    {[type |-> t, name |-> NoName, files |-> AbsentKey, tasks |-> AbsentKey] :
        t \in {"yaml_error", "none", "list"}}
        \cup {[type |-> "dict", name |-> n, files |-> fs, tasks |-> ts] :
                 n \in {NoName, Str(""), Str("m")},
                 fs \in FilesSections, ts \in TasksSections}

\* Python "key in mapping" for the three top-level keys
TopHas(w, field) ==
    /\ w.type = "dict"
    /\ CASE field = "name" -> w.name.type # "absent"
         [] field = "files" -> w.files.type # "absent"
         [] field = "tasks" -> w.tasks.type # "absent"

\* workflow.get('files', {}) / workflow.get('tasks', []): the value, or the
\* empty default for a missing key
GetFiles(w) == IF w.files.type = "absent" THEN DictOf(<<>>) ELSE w.files
GetTasks(w) == IF w.tasks.type = "absent" THEN ListOf(<<>>) ELSE w.tasks
\* task.get('inputs', [])
GetList(field) == IF field.type = "absent" THEN ListOf(<<>>) ELSE field

\* Python "not value"
Falsy(value) ==
    \/ value.type \in {"absent", "none"}
    \/ value.type \in {"dict", "list"} /\ value.v = <<>>

Keys(doc_files) == {doc_files.v[i].key : i \in DOMAIN doc_files.v}

\* --------------------------------------------------------- findings
\* one entry of an errors or warnings list
Finding(scope, msg, task, what) ==
    [scope |-> scope, msg |-> msg, task |-> task, what |-> what]

Started == [errors |-> <<>>, warnings |-> <<>>, raised |-> ""]
Raise(S, exc) == [S EXCEPT !.raised = exc]
Error(S, f) == [S EXCEPT !.errors = Append(@, f)]
Warn(S, f) == [S EXCEPT !.warnings = Append(@, f)]

\* ------------------------------------------------------ WorkflowValidator
\* the required_fields loop, from field number k on
RECURSIVE MissingTopFields(_, _, _)
MissingTopFields(w, S, k) ==
    LET required_fields == <<"name", "files", "tasks">>
    IN  IF k > Len(required_fields) THEN S
        ELSE MissingTopFields(
                 w,
                 IF ~TopHas(w, required_fields[k])
                 THEN Error(S, Finding("workflow", "Missing required field",
                                       0, required_fields[k]))
                 ELSE S,
                 k + 1)

\* "field not in self.workflow" raises TypeError on None
WorkflowValidator_check_structure(w, S) ==
    IF w.type = "none" THEN Raise(S, "TypeError")
    ELSE LET S1 == MissingTopFields(w, S, 1)
         IN  IF TopHas(w, "name") /\ w.name.s = ""
             THEN Error(S1, Finding("workflow", "Workflow name is empty",
                                    0, ""))
             ELSE S1

\* the loop over files.items(), from entry k on
RECURSIVE WorkflowValidator_file_entries(_, _, _)
WorkflowValidator_file_entries(entries, S, k) ==
    IF k > Len(entries) THEN S
    ELSE LET e == entries[k]
             S1 == IF ~e.has_name
                   THEN Error(S, Finding("file", "missing 'name' field",
                                         0, e.key))
                   ELSE S
             S2 == IF ~e.has_name \/ e.name # e.key
                   THEN Warn(S1, Finding("file", "name doesn't match key",
                                         0, e.key))
                   ELSE S1
             S3 == IF e.is_input /\ ~Truthy(e.source)
                   THEN Warn(S2, Finding("file",
                                 "marked as input but has no source URL",
                                 0, e.key))
                   ELSE S2
         IN  WorkflowValidator_file_entries(
                 entries,
                 IF e.type # "dict"
                 THEN Error(S, Finding("file", "should be a dictionary",
                                       0, e.key))
                 ELSE S3,
                 k + 1)

\* self.workflow.get raises AttributeError on a sequence, files.items() on a
\* scalar
WorkflowValidator_check_files(w, S) ==
    IF w.type # "dict" THEN Raise(S, "AttributeError")
    ELSE IF Falsy(GetFiles(w))
    THEN Warn(S, Finding("workflow", "No files defined in workflow", 0, ""))
    ELSE IF GetFiles(w).type # "dict" THEN Raise(S, "AttributeError")
    ELSE WorkflowValidator_file_entries(GetFiles(w).v, S, 1)

\* the loop over enumerate(tasks), from task k on (Python index k - 1), with
\* the task ids seen so far
RECURSIVE WorkflowValidator_task_entries(_, _, _, _)
WorkflowValidator_task_entries(ts, S, k, task_ids) ==
    IF k > Len(ts) THEN S
    ELSE LET task == ts[k]
             i == k - 1
             S1 == IF task.inputs.type = "absent"
                   THEN Error(S, Finding("task", "missing field", i, "inputs"))
                   ELSE S
             S2 == IF task.outputs.type = "absent"
                   THEN Error(S1, Finding("task", "missing field", i,
                                          "outputs"))
                   ELSE S1
             S3 == IF task.id \in task_ids
                   THEN Error(S2, Finding("task", "Duplicate task ID", i,
                                          task.id))
                   ELSE S2
             S4 == IF task.inputs.type \notin {"absent", "list"}
                   THEN Error(S3, Finding("task", "should be a list", i,
                                          "inputs"))
                   ELSE S3
             S5 == IF task.outputs.type \notin {"absent", "list"}
                   THEN Error(S4, Finding("task", "should be a list", i,
                                          "outputs"))
                   ELSE S4
             S6 == IF Falsy(task.outputs)
                   THEN Warn(S5, Finding("task", "has no outputs", i, ""))
                   ELSE S5
         IN  IF task.type # "dict"
             THEN WorkflowValidator_task_entries(
                      ts,
                      Error(S, Finding("task", "should be a dictionary", i, "")),
                      k + 1, task_ids)
             ELSE WorkflowValidator_task_entries(
                      ts, S6, k + 1, task_ids \cup {task.id})

WorkflowValidator_check_tasks(w, S) ==
    IF Falsy(GetTasks(w))
    THEN Error(S, Finding("workflow", "No tasks defined in workflow", 0, ""))
    ELSE WorkflowValidator_task_entries(GetTasks(w).v, S, 1, {})

\* "for name in lst: if name not in files: errors.append(...)", from item k
\* on: iterating None raises TypeError, and so does "in" on files = None
RECURSIVE UndefinedReferences(_, _, _, _, _, _)
UndefinedReferences(lst, doc_files, S, i, msg, k) ==
    IF lst.type = "none" THEN Raise(S, "TypeError")
    ELSE IF k > Len(lst.v) THEN S
    ELSE IF doc_files.type = "none" THEN Raise(S, "TypeError")
    ELSE UndefinedReferences(
             lst, doc_files,
             IF lst.v[k] \notin Keys(doc_files)
             THEN Error(S, Finding("task", msg, i, lst.v[k]))
             ELSE S,
             i, msg, k + 1)

\* the first loop of _check_references, from task k on: task.get raises
\* AttributeError on a task that is not a mapping
RECURSIVE WorkflowValidator_task_references(_, _, _, _)
WorkflowValidator_task_references(ts, doc_files, S, k) ==
    IF S.raised # "" \/ k > Len(ts) THEN S
    ELSE IF ts[k].type # "dict" THEN Raise(S, "AttributeError")
    ELSE LET S1 == UndefinedReferences(
                       GetList(ts[k].inputs), doc_files, S, k - 1,
                       "references undefined input file", 1)
             S2 == IF S1.raised # "" THEN S1
                   ELSE UndefinedReferences(
                            GetList(ts[k].outputs), doc_files, S1, k - 1,
                            "references undefined output file", 1)
         IN  WorkflowValidator_task_references(ts, doc_files, S2, k + 1)

\* used_files after the second loop
UsedFiles(ts) ==
    UNION {Range(GetList(ts[k].inputs).v) \cup Range(GetList(ts[k].outputs).v) :
              k \in DOMAIN ts}

\* "for fname in files: if fname not in used_files", from entry k on
RECURSIVE UnusedFiles(_, _, _, _)
UnusedFiles(entries, used_files, S, k) ==
    IF k > Len(entries) THEN S
    ELSE UnusedFiles(
             entries, used_files,
             IF entries[k].key \notin used_files
             THEN Warn(S, Finding("file", "is defined but never used", 0,
                                  entries[k].key))
             ELSE S,
             k + 1)

WorkflowValidator_check_references(w, S) ==
    LET doc_files == GetFiles(w)
        ts == GetTasks(w).v
        S1 == WorkflowValidator_task_references(ts, doc_files, S, 1)
    IN  IF S1.raised # "" THEN S1
        ELSE IF doc_files.type = "none" THEN Raise(S1, "TypeError")
        ELSE UnusedFiles(doc_files.v, UsedFiles(ts), S1, 1)

\* _load_yaml: a YAMLError becomes an error entry and validate returns False
WorkflowValidator_load_yaml(w, S) ==
    IF w.type = "yaml_error"
    THEN Error(S, Finding("workflow", "YAML syntax error", 0, ""))
    ELSE S

\* mutant: validate() stopping at the first check that found an error
WorkflowValidator_run_fail_fast(w) ==
    LET Then(S, check(_, _)) ==
            IF S.raised # "" \/ S.errors # <<>> THEN S ELSE check(w, S)
        S0 == WorkflowValidator_load_yaml(w, Started)
        S1 == Then(S0, WorkflowValidator_check_structure)
        S2 == Then(S1, WorkflowValidator_check_files)
        S3 == Then(S2, WorkflowValidator_check_tasks)
        S4 == Then(S3, WorkflowValidator_check_references)
    IN  [state |-> IF S4.raised # "" THEN "raised" ELSE "returned",
         raised |-> S4.raised,
         valid |-> S4.raised = "" /\ S4.errors = <<>>,
         errors |-> S4.errors,
         warnings |-> S4.warnings]

\* validate(): the object after the call, and what the call did: returned
\* len(self.errors) == 0, or let an exception through
WorkflowValidator_run(w) ==
    LET Then(S, check(_, _)) == IF S.raised # "" THEN S ELSE check(w, S)
        S0 == WorkflowValidator_load_yaml(w, Started)
        S1 == Then(S0, WorkflowValidator_check_structure)
        S2 == Then(S1, WorkflowValidator_check_files)
        S3 == Then(S2, WorkflowValidator_check_tasks)
        S4 == IF w.type = "yaml_error" THEN S0
              ELSE Then(S3, WorkflowValidator_check_references)
    IN  [state |-> IF S4.raised # "" THEN "raised" ELSE "returned",
         raised |-> S4.raised,
         valid |-> S4.raised = "" /\ S4.errors = <<>>,
         errors |-> S4.errors,
         warnings |-> S4.warnings]

NewValidator ==
    [state |-> "new", raised |-> "", valid |-> FALSE,
     errors |-> <<>>, warnings |-> <<>>]

\* ------------------------------------------------- validate_workflow (MCP)
\* the required_fields loop: "field not in workflow_dict" raises TypeError on
\* None
validate_workflow_required_fields(w, S) ==
    IF w.type = "none" THEN Raise(S, "TypeError")
    ELSE MissingTopFields(w, S, 1)

\* the loop over files.items(), from entry k on
RECURSIVE validate_workflow_file_entries(_, _, _)
validate_workflow_file_entries(entries, S, k) ==
    IF k > Len(entries) THEN S
    ELSE LET e == entries[k]
             S1 == IF ~e.has_name
                   THEN Error(S, Finding("file", "missing 'name' field",
                                         0, e.key))
                   ELSE S
             S2 == IF e.is_input /\ ~Truthy(e.source)
                   THEN Warn(S1, Finding("file",
                                 "input file has no source URL", 0, e.key))
                   ELSE S1
         IN  validate_workflow_file_entries(
                 entries,
                 IF e.type # "dict"
                 THEN Error(S, Finding("file", "should be a dictionary",
                                       0, e.key))
                 ELSE S2,
                 k + 1)

\* workflow_dict.get raises AttributeError on a sequence, files.items() on
\* None and on a scalar
validate_workflow_files(w, S) ==
    IF w.type # "dict" THEN Raise(S, "AttributeError")
    ELSE IF GetFiles(w).type # "dict" THEN Raise(S, "AttributeError")
    ELSE validate_workflow_file_entries(GetFiles(w).v, S, 1)

\* the loop over enumerate(tasks), from task k on
RECURSIVE validate_workflow_task_entries(_, _, _, _)
validate_workflow_task_entries(ts, doc_files, S, k) ==
    IF S.raised # "" \/ k > Len(ts) THEN S
    ELSE LET task == ts[k]
             i == k - 1
             S1 == IF task.inputs.type = "absent"
                   THEN Error(S, Finding("task", "missing field", i, "inputs"))
                   ELSE S
             S2 == IF task.outputs.type = "absent"
                   THEN Error(S1, Finding("task", "missing field", i,
                                          "outputs"))
                   ELSE S1
             S3 == UndefinedReferences(GetList(task.inputs), doc_files, S2, i,
                                       "references undefined input", 1)
             S4 == IF S3.raised # "" THEN S3
                   ELSE UndefinedReferences(GetList(task.outputs), doc_files, S3,
                                            i, "references undefined output", 1)
         IN  validate_workflow_task_entries(
                 ts, doc_files,
                 IF task.type # "dict"
                 THEN Error(S, Finding("task", "should be a dictionary", i, ""))
                 ELSE S4,
                 k + 1)

validate_workflow_tasks(w, S) ==
    validate_workflow_task_entries(GetTasks(w).v, GetFiles(w), S, 1)

\* the text validate_workflow returns: the results, or the message of the
\* except clause that caught the failure
validate_workflow_run(w) ==
    LET Then(S, check(_, _)) == IF S.raised # "" THEN S ELSE check(w, S)
        S1 == validate_workflow_required_fields(w, Started)
        S2 == Then(S1, validate_workflow_files)
        S3 == Then(S2, validate_workflow_tasks)
    IN  IF w.type = "yaml_error"
        THEN [state |-> "returned", text |-> "YAML parsing error",
              valid |-> FALSE, errors |-> <<>>, warnings |-> <<>>]
        ELSE IF S3.raised # ""
        THEN [state |-> "returned", text |-> "Validation error",
              valid |-> FALSE, errors |-> <<>>, warnings |-> <<>>]
        ELSE [state |-> "returned", text |-> "Validation Results",
              valid |-> S3.errors = <<>>,
              errors |-> S3.errors, warnings |-> S3.warnings]

NoValidation ==
    [state |-> "none", text |-> "", valid |-> FALSE,
     errors |-> <<>>, warnings |-> <<>>]

WorkflowValidator_validate ==
    /\ validator.state = "new"
    /\ validator' = WorkflowValidator_run(workflow_file)
    /\ UNCHANGED <<graphVars, workflow_file, validation, generatorVars,
                   writerVars, downloaderVars, serverVars, pipelineVars>>

validate_workflow ==
    /\ validation.state = "none"
    /\ validation' = validate_workflow_run(workflow_file)
    /\ UNCHANGED <<graphVars, workflow_file, validator, generatorVars,
                   writerVars, downloaderVars, serverVars, pipelineVars>>

\* ------------------------------------------------------- Pipeline Builder
\* The generator scripts (montage-workflow-yaml.py, montage-workflow-wfformat.py)
\* as the sequence of things main() does to its collaborators: the external
\* tools it invokes, the calls it makes on the workflow object, the files it
\* writes under data/.  One action per external tool invocation, with the code
\* that follows it up to the next invocation.
MaxBands == 3
MaxImages == 1
MaxOverlaps == 1

Colors == {"red", "green", "blue"}
BandLists == UNION {[1..n -> Colors] : n \in 1..MaxBands}
\* exit statuses of an external tool
ToolStatuses == {0, 1, 2}

Event(kind, name, band, row, status) ==
    [kind |-> kind, name |-> name, band |-> band, row |-> row,
     status |-> status]
Tool(name, band, status) == Event("tool", name, band, 0, status)
AddFileCall(name, band, row) == Event("add_file", name, band, row, 0)
AddTaskCall(executable, band, row) == Event("add_task", executable, band, row, 0)
MarkOutputCall(name, band) == Event("mark_output", name, band, 0, 0)
WriteFile(name, band) == Event("write", name, band, 0, 0)

\* mutant: the status of subprocess.call never looked at
ToolFailed_ignored(status) == FALSE

\* "if subprocess.call(cmd, shell=True) != 0"
ToolFailed(status) == status # 0

\* the calls of a "for row in data" loop over rows k..n
RECURSIVE ForRows(_, _, _)
ForRows(n, Body(_), k) ==
    IF k > n THEN <<>> ELSE Body(k) \o ForRows(n, Body, k + 1)

generate_region_hdr ==
    <<WriteFile("region.hdr", 0), AddFileCall("region.hdr", 0, 0),
      WriteFile("region-oversized.hdr", 0),
      AddFileCall("region-oversized.hdr", 0, 0)>>

\* add_band between mArchiveList and mDAGTbls
add_band_tables(b) ==
    <<AddFileCall("images.tbl", b, 0),
      WriteFile("raw.tbl", b), WriteFile("projected.tbl", b),
      WriteFile("corrected.tbl", b),
      AddFileCall("raw.tbl", b, 0), AddFileCall("projected.tbl", b, 0),
      AddFileCall("corrected.tbl", b, 0)>>

\* add_band after mOverlaps, for an images table of n rows and a diffs table
\* of d rows
add_band_tasks(b, n, d) ==
    LET mProject(row) ==
            <<AddFileCall("in.fits", b, row), AddFileCall("p.fits", b, row),
              AddFileCall("p_area.fits", b, row),
              AddTaskCall("mProject", b, row)>>
        mDiffFit(row) ==
            <<AddFileCall("fit.txt", b, row), AddFileCall("diff.fits", b, row),
              AddTaskCall("mDiffFit", b, row)>>
        mBackground(row) ==
            <<AddFileCall("c.fits", b, row), AddFileCall("c_area.fits", b, row),
              AddTaskCall("mBackground", b, row)>>
    IN  <<WriteFile("stat.tbl", b), AddFileCall("stat.tbl", b, 0)>>
        \o ForRows(n, mProject, 1)
        \o ForRows(d, mDiffFit, 1)
        \o <<AddFileCall("fits.tbl", b, 0), AddTaskCall("mConcatFit", b, 0),
             AddFileCall("corrections.tbl", b, 0),
             AddTaskCall("mBgModel", b, 0)>>
        \o ForRows(n, mBackground, 1)
        \o <<AddFileCall("updated-corrected.tbl", b, 0),
             AddTaskCall("mImgtbl", b, 0),
             AddFileCall("mosaic.fits", b, 0),
             AddFileCall("mosaic_area.fits", b, 0),
             AddTaskCall("mAdd", b, 0),
             MarkOutputCall("mosaic.fits", b),
             AddFileCall("mosaic.png", b, 0),
             AddTaskCall("mViewer", b, 0),
             MarkOutputCall("mosaic.png", b)>>

color_png ==
    <<AddFileCall("mosaic-color.png", 0, 0), AddTaskCall("mViewer", 0, 0),
      MarkOutputCall("mosaic-color.png", 0)>>

\* main() after the loop over the bands: the colour image if the three
\* colours were given, the replica catalog (WfFormat script only), the
\* workflow document
main_finish(script, bands) ==
    (IF Colors \subseteq Range(bands) THEN color_png ELSE <<>>)
    \o (IF script = "montage-workflow-wfformat.py"
        THEN <<WriteFile("rc.txt", 0), WriteFile("montage-workflow.json", 0)>>
        ELSE <<WriteFile("montage-workflow.yml", 0)>>)

\* sys.exit(status)
Exit(g, status) == [g EXCEPT !.pc = "exited", !.exited = TRUE, !.status = status]

NotStarted(script, bands) ==
    [script |-> script, bands |-> bands, band_id |-> 0, images |-> 0,
     pc |-> "main", exited |-> FALSE, status |-> 0]

\* main() up to the first mArchiveList: data/ must not exist yet
main(data_exists) ==
    /\ generator.pc = "main"
    /\ IF data_exists
       THEN /\ generator' = Exit(generator, 1)
            /\ UNCHANGED events
       ELSE /\ generator' = [generator EXCEPT !.pc = "mArchiveList",
                                              !.band_id = 1]
            /\ events' = events \o generate_region_hdr
    /\ UNCHANGED <<graphVars, validatorVars, writerVars, downloaderVars,
                   serverVars, pipelineVars>>

mArchiveList(status, n) ==
    /\ generator.pc = "mArchiveList"
    /\ LET b == generator.band_id
           invoked == Append(events, Tool("mArchiveList", b, status))
       IN  IF ToolFailed(status)
           THEN /\ generator' = Exit(generator, 1)
                /\ events' = invoked
           ELSE /\ generator' = [generator EXCEPT !.pc = "mDAGTbls",
                                                  !.images = n]
                /\ events' = invoked \o add_band_tables(b)
    /\ UNCHANGED <<graphVars, validatorVars, writerVars, downloaderVars,
                   serverVars, pipelineVars>>

mDAGTbls(status) ==
    /\ generator.pc = "mDAGTbls"
    /\ events' = Append(events, Tool("mDAGTbls", generator.band_id, status))
    /\ generator' = IF ToolFailed(status) THEN Exit(generator, 1)
                    ELSE [generator EXCEPT !.pc = "mOverlaps"]
    /\ UNCHANGED <<graphVars, validatorVars, writerVars, downloaderVars,
                   serverVars, pipelineVars>>

mOverlaps(status, d) ==
    /\ generator.pc = "mOverlaps"
    /\ LET b == generator.band_id
           invoked == Append(events, Tool("mOverlaps", b, status))
           band == invoked \o add_band_tasks(b, generator.images, d)
       IN  IF ToolFailed(status)
           THEN /\ generator' = Exit(generator, 1)
                /\ events' = invoked
           ELSE IF b < Len(generator.bands)
           THEN /\ generator' = [generator EXCEPT !.pc = "mArchiveList",
                                                  !.band_id = b + 1]
                /\ events' = band
           ELSE /\ generator' = Exit(generator, 0)
                /\ events' = band \o main_finish(generator.script,
                                                 generator.bands)
    /\ UNCHANGED <<graphVars, validatorVars, writerVars, downloaderVars,
                   serverVars, pipelineVars>>

\* ------------------------------------------------------------ output files
\* A write operation as the steps it takes on its output file, in the order
\* of the code: "load" reads and parses the input document, "compute" builds
\* the document to be written, "open" creates or truncates the output file,
\* "dump" serialises the document into it.
MaxOperations == 2

AbstractWorkflow_write_steps == <<"open", "compute", "dump">>
WfFormatWorkflow_write_steps == <<"compute", "open", "dump">>
compile_yaml_to_hyperflow_steps == <<"load", "compute", "open", "dump">>
compile_wfformat_to_hyperflow_steps == <<"load", "compute", "open", "dump">>

Operations ==
    {"AbstractWorkflow.write", "WfFormatWorkflow.write",
     "compile_yaml_to_hyperflow", "compile_wfformat_to_hyperflow"}

Steps(op) ==
    CASE op = "AbstractWorkflow.write" -> AbstractWorkflow_write_steps
      [] op = "WfFormatWorkflow.write" -> WfFormatWorkflow_write_steps
      [] op = "compile_yaml_to_hyperflow" -> compile_yaml_to_hyperflow_steps
      [] op = "compile_wfformat_to_hyperflow" ->
             compile_wfformat_to_hyperflow_steps
      [] OTHER -> <<>>

NoOperation ==
    [op |-> "", step |-> 0, computed |-> FALSE, failed |-> FALSE,
     before |-> "absent", calls |-> 0]

Running == writer.step \in DOMAIN Steps(writer.op)
AtStep(kind) == Running /\ Steps(writer.op)[writer.step] = kind
\* the step done: on to the next one, or the operation returns
Advance(w) == [w EXCEPT !.step = @ + 1]
\* an exception leaves the operation
Fail(w) == [w EXCEPT !.step = 0, !.failed = TRUE]

\* the caller starts one of the four operations on the output path
call_operation(op) ==
    /\ ~Running
    /\ writer.calls < MaxOperations
    /\ writer' = [op |-> op, step |-> 1, computed |-> FALSE, failed |-> FALSE,
                  before |-> out_file, calls |-> writer.calls + 1]
    /\ UNCHANGED <<out_file, graphVars, validatorVars, generatorVars,
                   downloaderVars, serverVars, pipelineVars>>

\* open(input) and yaml.safe_load / json.load: returns, or raises
load_step(ok) ==
    /\ AtStep("load")
    /\ writer' = IF ok THEN Advance(writer) ELSE Fail(writer)
    /\ UNCHANGED <<out_file, graphVars, validatorVars, generatorVars,
                   downloaderVars, serverVars, pipelineVars>>

\* to_dict() / to_wfformat() / compile(): returns the document, or raises
compute_step(ok) ==
    /\ AtStep("compute")
    /\ writer' = IF ok THEN [Advance(writer) EXCEPT !.computed = TRUE]
                 ELSE Fail(writer)
    /\ UNCHANGED <<out_file, graphVars, validatorVars, generatorVars,
                   downloaderVars, serverVars, pipelineVars>>

\* open(filename, 'w'): the file exists and is empty
open_step ==
    /\ AtStep("open")
    /\ out_file' = "empty"
    /\ writer' = Advance(writer)
    /\ UNCHANGED <<graphVars, validatorVars, generatorVars, downloaderVars,
                   serverVars, pipelineVars>>

\* yaml.dump / json.dump into the open file
dump_step ==
    /\ AtStep("dump")
    /\ out_file' = "complete"
    /\ writer' = Advance(writer)
    /\ UNCHANGED <<graphVars, validatorVars, generatorVars, downloaderVars,
                   serverVars, pipelineVars>>

\* --------------------------------------------------------- batch downloader
\* tests/integration/download-rc-files.py.  A file name is the sequence of its
\* dot-separated parts, <<"a", "fits", "gz">> for a.fits.gz, so that
\* filename + '.gz' and url.endswith('.gz') are what they are in the code.
MaxEntries == 2

CatalogNames == {<<"a", "fits">>, <<"a", "fits", "gz">>, <<"b", "fits">>}
CatalogUrls == {<<"u", "fits">>, <<"u", "fits", "gz">>}
Pools == {"local", "ipac", "remote"}
CatalogEntries == [filename : CatalogNames, url : CatalogUrls, pool : Pools]
Catalogs == UNION {[1..n -> CatalogEntries] : n \in 0..MaxEntries}

\* name + '.gz'
PlusGz(name) == Append(name, "gz")
\* name.endswith('.gz')
EndsWithGz(name) == Len(name) > 1 /\ name[Len(name)] = "gz"

Paths == CatalogNames \cup {PlusGz(name) : name \in CatalogNames}
EmptyDir == [p \in Paths |-> "absent"]

\* [entry for entry in entries if pool != "local"]
RemoteEntries(entries) == SelectSeq(entries, LAMBDA e : e.pool # "local")

NoDownload ==
    [entries |-> <<>>, remote_entries |-> <<>>, i |-> 0, pc |-> "idle",
     success_count |-> 0, fail_count |-> 0, status |-> 0]

\* the end of one iteration of the loop over remote_entries, and after the
\* last one the summary and the exit status
NextEntry(d, ok) ==
    LET counted == IF ok THEN [d EXCEPT !.success_count = @ + 1]
                   ELSE [d EXCEPT !.fail_count = @ + 1]
    IN  IF d.i < Len(d.remote_entries)
        THEN [counted EXCEPT !.i = @ + 1, !.pc = "download"]
        ELSE [counted EXCEPT !.pc = "done",
                             !.status = IF counted.fail_count > 0 THEN 1 ELSE 0]

\* main() up to the loop: the entries are parsed and the local ones dropped
download_main ==
    /\ downloader.pc = "start"
    /\ LET remote_entries == RemoteEntries(downloader.entries)
       IN  downloader' =
               IF remote_entries = <<>>
               THEN [downloader EXCEPT !.pc = "done"]
               ELSE [downloader EXCEPT !.remote_entries = remote_entries,
                                       !.i = 1, !.pc = "download"]
    /\ UNCHANGED <<disk, fetched, graphVars, validatorVars, generatorVars,
                   writerVars, serverVars, pipelineVars>>

\* where the entry is downloaded to: temp_gz or output_path
DownloadPath(entry) ==
    IF EndsWithGz(entry.url) THEN PlusGz(entry.filename) ELSE entry.filename

\* download_file(url, output_path, filename): the payload is a gzip stream or
\* not; the transfer succeeds, fails before the output file is opened, or
\* fails while the payload is being copied
download_file(payload, outcome) ==
    /\ downloader.pc = "download"
    /\ LET entry == downloader.remote_entries[downloader.i]
           output_path == DownloadPath(entry)
       IN  /\ fetched' = Append(fetched, [entry |-> entry, path |-> output_path])
           /\ disk' = CASE outcome = "saved" -> [disk EXCEPT ![output_path] = payload]
                        [] outcome = "cut" -> [disk EXCEPT ![output_path] = "partial"]
                        [] outcome = "refused" -> disk
           /\ downloader' =
                  IF outcome # "saved" THEN NextEntry(downloader, FALSE)
                  ELSE IF EndsWithGz(entry.url)
                       THEN [downloader EXCEPT !.pc = "decompress"]
                       ELSE NextEntry(downloader, TRUE)
    /\ UNCHANGED <<graphVars, validatorVars, generatorVars, writerVars,
                   serverVars, pipelineVars>>

\* mutant: the compressed file is removed whether or not gzip could read it
decompress_gz_files_always_unlink(d, gz_path, output_path) ==
    IF d[gz_path] = "gzip"
    THEN [d EXCEPT ![output_path] = "data", ![gz_path] = "absent"]
    ELSE [d EXCEPT ![output_path] = "partial", ![gz_path] = "absent"]

\* the directory after decompress_gz(gz_path, output_path): the output is
\* opened for writing, the stream copied, and the .gz file unlinked once the
\* copy went through; a payload gzip cannot read raises out of the copy
decompress_gz_files(d, gz_path, output_path) ==
    IF d[gz_path] = "gzip"
    THEN [d EXCEPT ![output_path] = "data", ![gz_path] = "absent"]
    ELSE [d EXCEPT ![output_path] = "partial"]

decompress_gz ==
    /\ downloader.pc = "decompress"
    /\ LET entry == downloader.remote_entries[downloader.i]
           temp_gz == PlusGz(entry.filename)
           final_path == entry.filename
       IN  /\ disk' = decompress_gz_files(disk, temp_gz, final_path)
           /\ downloader' = NextEntry(downloader, disk[temp_gz] = "gzip")
    /\ UNCHANGED <<fetched, graphVars, validatorVars, generatorVars,
                   writerVars, serverVars, pipelineVars>>

\* ------------------------------------------- generate_montage_workflow (MCP)
\* The tool call as the server makes it: the arguments are checked, the
\* generator scripts are run as subprocesses, each in its own work directory,
\* and the results are saved into a fresh workflow directory.
Absent == "<absent>"
WorkflowNames == {Absent, "montage", "m17"}
OutputFormats == {Absent, "both", "yaml", "wfformat", "hyperflow", "pegasus"}
Degrees == {0, 1, 11}
BandArgs == {<<>>} \cup BandLists
ToolArgs ==
    [workflow_name : WorkflowNames, output_format : OutputFormats,
     degrees : Degrees, bands : BandArgs]

\* args.get(key, default)
ArgOr(value, default) == IF value = Absent THEN default ELSE value

\* a generator to run: (format_name, generator_script, workflow_file_name)
Generator(format_name, script, workflow_file_name) ==
    [format_name |-> format_name, script |-> script,
     workflow_file_name |-> workflow_file_name]

GeneratorsFor(output_format) ==
    CASE output_format = "both" ->
           <<Generator("wfformat", "montage-workflow-wfformat.py",
                       "montage-workflow.json"),
             Generator("hyperflow", "montage-workflow-yaml.py",
                       "montage-workflow.yml")>>
      [] output_format = "wfformat" ->
           <<Generator("wfformat", "montage-workflow-wfformat.py",
                       "montage-workflow.json")>>
      [] output_format = "hyperflow" ->
           <<Generator("hyperflow", "montage-workflow-yaml.py",
                       "montage-workflow.yml")>>
      [] OTHER ->
           <<Generator("yaml", "montage-workflow-yaml.py",
                       "montage-workflow.yml")>>

\* wf = AbstractWorkflow('montage') / WfFormatWorkflow('montage'): the name the
\* generator scripts give the workflow; their command line has no name option
ScriptWorkflowName == "montage"

\* the files a generator script leaves in data/ after a run that exits with
\* status 0: the tables the external tools write, and what the script writes
DataDir(script, bands) ==
    {"images.tbl", "diffs.tbl"}
    \cup {e.name : e \in {f \in Range(generate_region_hdr
                                      \o add_band_tables(1)
                                      \o add_band_tasks(1, 0, 0)
                                      \o main_finish(script, bands)) :
                            f.kind = "write"}}

WorkflowFiles == {"montage-workflow.yml", "montage-workflow.json"}

\* a file of the workflow directory; name is the workflow name a workflow
\* document carries, "" for any other file
DirFile(file, name) == [file |-> file, name |-> name]

NoCall ==
    [args |-> [workflow_name |-> Absent, output_format |-> Absent,
               degrees |-> 1, bands |-> <<>>],
     pc |-> "idle", generators |-> <<>>, g |-> 0,
     generated_formats |-> <<>>, result |-> ""]

Return(s, text) == [s EXCEPT !.pc = "returned", !.result = text]

\* the argument checks and the choice of the generators
generate_montage_workflow ==
    /\ server.pc = "called"
    /\ LET args == server.args
           output_format == ArgOr(args.output_format, "both")
       IN  server' =
             IF args.bands = <<>>
             THEN Return(server, "Error: bands must be a non-empty array")
             ELSE IF args.degrees <= 0 \/ args.degrees > 10
             THEN Return(server, "Error: degrees must be between 0 and 10")
             ELSE IF output_format \notin {"yaml", "wfformat", "hyperflow", "both"}
             THEN Return(server, "Error: output_format must be ...")
             ELSE [server EXCEPT !.generators = GeneratorsFor(output_format),
                                 !.g = 1, !.pc = "generate"]
    /\ UNCHANGED <<workflow_dir, graphVars, validatorVars, generatorVars,
                   writerVars, downloaderVars, pipelineVars>>

\* one iteration of the loop over the generators: subprocess.run returns
\* status 0 with the workflow file written, a nonzero status, status 0
\* without the workflow file, or it times out
run_generator(outcome) ==
    /\ server.pc = "generate"
    /\ LET gen == server.generators[server.g]
           generated ==
               [format_name |-> gen.format_name,
                content |-> ScriptWorkflowName,
                data_dir |-> DataDir(gen.script, server.args.bands)]
       IN  server' =
             CASE outcome = "failed" ->
                    Return(server, "Error generating workflow")
               [] outcome = "timeout" ->
                    Return(server, "Error: workflow generation timed out")
               [] outcome = "no file" ->
                    Return(server, "Error: Workflow file not generated")
               [] outcome = "generated" ->
                    [server EXCEPT
                       !.generated_formats = Append(@, generated),
                       !.g = @ + 1,
                       !.pc = IF server.g < Len(server.generators)
                              THEN "generate" ELSE "save"]
    /\ UNCHANGED <<workflow_dir, graphVars, validatorVars, generatorVars,
                   writerVars, downloaderVars, pipelineVars>>

\* the workflow file saved for a generated format
SavedAs(format_name) ==
    CASE format_name = "wfformat" -> "workflow-wfformat.json"
      [] format_name = "hyperflow" -> "workflow.json"
      [] format_name = "yaml" -> "workflow.yml"

\* the workflow directory is created, the auxiliary files of the first
\* generated format are copied into it, every generated workflow is saved
\* (the hyperflow one compiled from the YAML document, which carries the name
\* over), and WORKFLOW-INFO.txt is written
save_workflows ==
    /\ server.pc = "save"
    /\ LET first == server.generated_formats[1]
           copied == {DirFile(f, "") : f \in first.data_dir \ WorkflowFiles}
           saved == {DirFile(SavedAs(gf.format_name), gf.content) :
                        gf \in Range(server.generated_formats)}
       IN  workflow_dir' = copied \cup saved
                           \cup {DirFile("WORKFLOW-INFO.txt", "")}
    /\ server' = Return(server, "Successfully generated Montage workflow")
    /\ UNCHANGED <<graphVars, validatorVars, generatorVars, writerVars,
                   downloaderVars, pipelineVars>>

\* ------------------------------------------- the graph the pipeline builds
\* add_band and color_png as calls of WfFormatWorkflow.add_task, with the
\* inputs and outputs the code gives each task.  A band's tables are what the
\* external tools returned: the image names of images.tbl (raw.tbl,
\* projected.tbl and corrected.tbl list the same images, plain, p-prefixed
\* and c-prefixed) and the (plus, minus) pairs of diffs.tbl.
MaxBandImages == 2
MaxBandDiffs == 1
\* rows of all the tables of a run together
MaxRows == 4

ImageNames == {"a", "b"}
ImageTables == UNION {[1..n -> ImageNames] : n \in 0..MaxBandImages}
DiffTables == UNION {[1..n -> ImageNames \X ImageNames] : n \in 0..MaxBandDiffs}
PipelineBands ==
    {<<"red">>, <<"red", "green">>, <<"red", "green", "blue">>,
     <<"blue", "green", "red">>}

\* a file name: its fixed part, the band number of a band-prefixed name (0
\* without prefix) and the image or difference it is derived from
File(kind, band, key) == [kind |-> kind, band |-> band, key |-> key]
NoKey == <<>>
Image(name) == <<name>>
Diff(pair) == <<pair[1], pair[2]>>

\* self.specification_tasks after add_task(executable, args, inputs, outputs)
AddTask(ts, executable, ins, outs) ==
    Append(ts, [id |-> WfTaskId(Len(ts)), name |-> executable,
                parents |-> <<>>, children |-> <<>>,
                inputFiles |-> ins, outputFiles |-> outs])

\* for row in rows: add one task, from row k on
RECURSIVE ForEachRow(_, _, _, _)
ForEachRow(ts, rows, Task(_, _), k) ==
    IF k > Len(rows) THEN ts
    ELSE ForEachRow(Task(ts, rows[k]), rows, Task, k + 1)

\* [f(row) for row in rows], flattened
RECURSIVE Listed(_, _, _)
Listed(rows, Names(_), k) ==
    IF k > Len(rows) THEN <<>>
    ELSE Names(rows[k]) \o Listed(rows, Names, k + 1)

\* the tasks one stage of add_band(wf, b, ...) adds for the tables
add_band_stage(ts, stage, b, images, diffs) ==
    LET mProject(t, row) ==
            AddTask(t, "mProject",
                    <<File("region-oversized.hdr", 0, NoKey),
                      File(".fits", 0, Image(row))>>,
                    <<File("p.fits", 0, Image(row)),
                      File("p_area.fits", 0, Image(row))>>)
        mDiffFit(t, row) ==
            AddTask(t, "mDiffFit",
                    <<File("p.fits", 0, Image(row[1])),
                      File("p_area.fits", 0, Image(row[1])),
                      File("p.fits", 0, Image(row[2])),
                      File("p_area.fits", 0, Image(row[2])),
                      File("region-oversized.hdr", 0, NoKey)>>,
                    <<File("fit.txt", b, Diff(row))>>)
        fit_txts == Listed(diffs, LAMBDA row : <<File("fit.txt", b, Diff(row))>>, 1)
        mBackground(t, row) ==
            AddTask(t, "mBackground",
                    <<File("p.fits", 0, Image(row)),
                      File("p_area.fits", 0, Image(row)),
                      File("projected.tbl", b, NoKey),
                      File("corrections.tbl", b, NoKey)>>,
                    <<File("c.fits", 0, Image(row)),
                      File("c_area.fits", 0, Image(row))>>)
        corrected_files ==
            Listed(images, LAMBDA row : <<File("c.fits", 0, Image(row))>>, 1)
        corrected_files_with_area ==
            Listed(images, LAMBDA row : <<File("c.fits", 0, Image(row)),
                                          File("c_area.fits", 0, Image(row))>>, 1)
    IN  CASE stage = "mProject" -> ForEachRow(ts, images, mProject, 1)
          [] stage = "mDiffFit" -> ForEachRow(ts, diffs, mDiffFit, 1)
          [] stage = "mConcatFit" ->
               AddTask(ts, "mConcatFit",
                       <<File("stat.tbl", b, NoKey)>> \o fit_txts,
                       <<File("fits.tbl", b, NoKey)>>)
          [] stage = "mBgModel" ->
               AddTask(ts, "mBgModel",
                       <<File("images.tbl", b, NoKey),
                         File("fits.tbl", b, NoKey)>>,
                       <<File("corrections.tbl", b, NoKey)>>)
          [] stage = "mBackground" -> ForEachRow(ts, images, mBackground, 1)
          [] stage = "mImgtbl" ->
               AddTask(ts, "mImgtbl",
                       <<File("corrected.tbl", b, NoKey)>> \o corrected_files,
                       <<File("updated-corrected.tbl", b, NoKey)>>)
          [] stage = "mAdd" ->
               AddTask(ts, "mAdd",
                       <<File("updated-corrected.tbl", b, NoKey),
                         File("region.hdr", 0, NoKey)>>
                       \o corrected_files_with_area,
                       <<File("mosaic.fits", b, NoKey),
                         File("mosaic_area.fits", b, NoKey)>>)
          [] stage = "mViewer" ->
               AddTask(ts, "mViewer",
                       <<File("mosaic.fits", b, NoKey)>>,
                       <<File("mosaic.png", b, NoKey)>>)

\* mutant: the background correction tasks added before the model fit
add_band_stages_background_first ==
    <<"mProject", "mDiffFit", "mConcatFit", "mBackground", "mBgModel",
      "mImgtbl", "mAdd", "mViewer">>

\* the order in which add_band adds its tasks
add_band_stages ==
    <<"mProject", "mDiffFit", "mConcatFit", "mBgModel", "mBackground",
      "mImgtbl", "mAdd", "mViewer">>

\* the tasks add_band(wf, b, ...) adds for the tables, from stage k on
RECURSIVE add_band_dependencies(_, _, _, _, _)
add_band_dependencies(ts, b, images, diffs, k) ==
    IF k > Len(add_band_stages) THEN ts
    ELSE add_band_dependencies(
             add_band_stage(ts, add_band_stages[k], b, images, diffs),
             b, images, diffs, k + 1)

\* color_band[color] = band_id, band after band: the last band of a colour
ColorBand(bands, color) ==
    CHOOSE b \in DOMAIN bands :
        bands[b] = color /\ \A c \in DOMAIN bands : bands[c] = color => c <= b

\* the task color_png(wf, red_id, green_id, blue_id) adds
color_png_dependencies(ts, bands) ==
    AddTask(ts, "mViewer",
            <<File("mosaic.fits", ColorBand(bands, "red"), NoKey),
              File("mosaic.fits", ColorBand(bands, "green"), NoKey),
              File("mosaic.fits", ColorBand(bands, "blue"), NoKey)>>,
            <<File("mosaic-color.png", 0, NoKey)>>)

\* the number of rows of the tables read so far
TableRows(tables) ==
    LET F[b \in 0..Len(tables)] ==
            IF b = 0 THEN 0
            ELSE F[b - 1] + Len(tables[b].images) + Len(tables[b].diffs)
    IN  F[Len(tables)]

NoPipeline ==
    [bands |-> <<>>, tables |-> <<>>, tasks |-> <<>>, pc |-> "idle"]

\* one iteration of main()'s loop over the bands; after the last band the
\* colour image if red, green and blue were given
pipeline_add_band(images, diffs) ==
    /\ pipeline.pc = "bands"
    /\ TableRows(pipeline.tables) + Len(images) + Len(diffs) <= MaxRows
    /\ LET b == Len(pipeline.tables) + 1
           ts == add_band_dependencies(pipeline.tasks, b, images, diffs, 1)
           last == b = Len(pipeline.bands)
       IN  pipeline' =
             [pipeline EXCEPT
                !.tables = Append(@, [images |-> images, diffs |-> diffs]),
                !.tasks = IF last /\ Colors \subseteq Range(pipeline.bands)
                          THEN color_png_dependencies(ts, pipeline.bands)
                          ELSE ts,
                !.pc = IF last THEN "built" ELSE "bands"]
    /\ UNCHANGED <<graphVars, validatorVars, generatorVars, writerVars,
                   downloaderVars, serverVars>>

\* wf.write(): to_wfformat computes the dependencies
pipeline_write ==
    /\ pipeline.pc = "built"
    /\ pipeline' = [pipeline EXCEPT
                       !.tasks = compute_dependencies(pipeline.tasks),
                       !.pc = "written"]
    /\ UNCHANGED <<graphVars, validatorVars, generatorVars, writerVars,
                   downloaderVars, serverVars>>

\* ------------------------------------------------------------------- spec
\* no document has been handed to a validator
ValidatorsIdle ==
    /\ workflow_file = [type |-> "none", name |-> NoName,
                        files |-> AbsentKey, tasks |-> AbsentKey]
    /\ validator = NewValidator
    /\ validation = NoValidation

GraphModelInit ==
    /\ builder \in {"AbstractWorkflow", "WfFormatWorkflow"}
    /\ pc = "build"
    /\ AbstractWorkflow_init
    /\ WfFormatWorkflow_init
    /\ document = NoDocument
    /\ compilers = <<>>

\* no generator script has been started
GeneratorIdle ==
    /\ generator = NotStarted("", <<>>)
    /\ events = <<>>

\* no write operation has been called
WriterIdle ==
    /\ writer = NoOperation
    /\ out_file = "absent"

\* no download, no tool call, no pipeline run
DownloaderIdle ==
    /\ downloader = NoDownload
    /\ disk = EmptyDir
    /\ fetched = <<>>

ServerIdle ==
    /\ server = NoCall
    /\ workflow_dir = {}

PipelineIdle == pipeline = NoPipeline

RestIdle == DownloaderIdle /\ ServerIdle /\ PipelineIdle

Init ==
    GraphModelInit /\ ValidatorsIdle /\ GeneratorIdle /\ WriterIdle /\ RestIdle

NextYaml ==
    \/ /\ \E name \in FileNames, a \in AddFileArgs :
             AbstractWorkflow_add_file(name, a[1], a[2], a[3])
       /\ UNCHANGED otherVars
    \/ /\ \E ins \in FileLists, outs \in FileLists :
             AbstractWorkflow_add_task(ins, outs)
       /\ UNCHANGED otherVars
    \/ /\ \E filename \in FileNames : AbstractWorkflow_mark_output(filename)
       /\ UNCHANGED otherVars
    \/ /\ AbstractWorkflow_write
       /\ UNCHANGED otherVars
    \/ /\ compile_yaml_to_hyperflow
       /\ UNCHANGED otherVars
    \/ /\ \E n \in DOMAIN compilers : HyperFlowCompiler_recompile(n)
       /\ UNCHANGED otherVars

NextWf ==
    \/ /\ \E name \in FileNames, a \in AddFileArgs :
             WfFormatWorkflow_add_file(name, a[1], a[2], a[3])
       /\ UNCHANGED otherVars
    \/ /\ \E ins \in FileLists, outs \in FileLists :
             WfFormatWorkflow_add_task(ins, outs)
       /\ UNCHANGED otherVars
    \/ /\ \E filename \in FileNames : WfFormatWorkflow_mark_output(filename)
       /\ UNCHANGED otherVars
    \/ /\ WfFormatWorkflow_write
       /\ UNCHANGED otherVars
    \/ /\ compile_wfformat_to_hyperflow
       /\ UNCHANGED otherVars
    \/ /\ \E n \in DOMAIN compilers : WfFormatToHyperFlowCompiler_recompile(n)
       /\ UNCHANGED otherVars

Next == NextYaml \/ NextWf

Spec == Init /\ [][Next]_vars

\* one generator script at a time
InitYaml == Init /\ builder = "AbstractWorkflow"
InitWf == Init /\ builder = "WfFormatWorkflow"

SpecYaml == InitYaml /\ [][NextYaml]_vars
SpecWf == InitWf /\ [][NextWf]_vars

\* a caller that holds one workflow object of each class and adds tasks to
\* either, in any interleaving: each object's state is its own attributes
OtherInstance ==
    /\ pc = "build"
    /\ builder' = IF builder = "AbstractWorkflow"
                  THEN "WfFormatWorkflow" ELSE "AbstractWorkflow"
    /\ UNCHANGED <<pc, yamlVars, wfVars, document, compilers>>

NextInstances ==
    \/ /\ \E ins \in FileLists, outs \in FileLists :
             AbstractWorkflow_add_task(ins, outs)
       /\ UNCHANGED otherVars
    \/ /\ \E ins \in FileLists, outs \in FileLists :
             WfFormatWorkflow_add_task(ins, outs)
       /\ UNCHANGED otherVars
    \/ /\ OtherInstance
       /\ UNCHANGED otherVars

SpecInstances == Init /\ [][NextInstances]_vars

\* the two validators, each run once on a document of the universe
InitValidator ==
    /\ GraphModelInit
    /\ builder = "AbstractWorkflow"
    /\ workflow_file \in Documents
    /\ validator = NewValidator
    /\ validation = NoValidation
    /\ GeneratorIdle
    /\ WriterIdle
    /\ RestIdle

NextValidator ==
    \/ WorkflowValidator_validate
    \/ validate_workflow

SpecValidator == InitValidator /\ [][NextValidator]_vars

\* a generator script run on one to MaxBands bands
InitGenerator ==
    /\ GraphModelInit
    /\ builder = "AbstractWorkflow"
    /\ ValidatorsIdle
    /\ WriterIdle
    /\ \E script \in {"montage-workflow-yaml.py",
                       "montage-workflow-wfformat.py"}, bands \in BandLists :
          generator = NotStarted(script, bands)
    /\ events = <<>>
    /\ RestIdle

NextGenerator ==
    \/ \E data_exists \in BOOLEAN : main(data_exists)
    \/ \E status \in ToolStatuses, n \in 0..MaxImages :
          mArchiveList(status, n)
    \/ \E status \in ToolStatuses : mDAGTbls(status)
    \/ \E status \in ToolStatuses, d \in 0..MaxOverlaps :
          mOverlaps(status, d)

SpecGenerator == InitGenerator /\ [][NextGenerator]_vars

\* up to MaxOperations write operations, one after the other, on an output
\* path that holds nothing or a previous document
InitWriter ==
    /\ GraphModelInit
    /\ builder = "AbstractWorkflow"
    /\ ValidatorsIdle
    /\ GeneratorIdle
    /\ writer = NoOperation
    /\ out_file \in {"absent", "previous"}
    /\ RestIdle

NextWriter ==
    \/ \E op \in Operations : call_operation(op)
    \/ \E ok \in BOOLEAN : load_step(ok)
    \/ \E ok \in BOOLEAN : compute_step(ok)
    \/ open_step
    \/ dump_step

SpecWriter == InitWriter /\ [][NextWriter]_vars

\* the batch downloader run on a catalog of up to MaxEntries entries
InitDownloader ==
    /\ GraphModelInit
    /\ builder = "AbstractWorkflow"
    /\ ValidatorsIdle /\ GeneratorIdle /\ WriterIdle
    /\ ServerIdle /\ PipelineIdle
    /\ \E entries \in Catalogs :
          downloader = [NoDownload EXCEPT !.entries = entries, !.pc = "start"]
    /\ disk = EmptyDir
    /\ fetched = <<>>

NextDownloader ==
    \/ download_main
    \/ \E payload \in {"gzip", "other"},
          outcome \in {"saved", "cut", "refused"} :
          download_file(payload, outcome)
    \/ decompress_gz

SpecDownloader == InitDownloader /\ [][NextDownloader]_vars

\* one generate_montage_workflow call
InitServer ==
    /\ GraphModelInit
    /\ builder = "AbstractWorkflow"
    /\ ValidatorsIdle /\ GeneratorIdle /\ WriterIdle
    /\ DownloaderIdle /\ PipelineIdle
    /\ \E args \in ToolArgs :
          server = [NoCall EXCEPT !.args = args, !.pc = "called"]
    /\ workflow_dir = {}

NextServer ==
    \/ generate_montage_workflow
    \/ \E outcome \in {"generated", "failed", "timeout", "no file"} :
          run_generator(outcome)
    \/ save_workflows

SpecServer == InitServer /\ [][NextServer]_vars

\* the WfFormat generator script run on one to three bands
InitPipeline ==
    /\ GraphModelInit
    /\ builder = "WfFormatWorkflow"
    /\ ValidatorsIdle /\ GeneratorIdle /\ WriterIdle
    /\ DownloaderIdle /\ ServerIdle
    /\ \E bands \in PipelineBands :
          pipeline = [NoPipeline EXCEPT !.bands = bands, !.pc = "bands"]

NextPipeline ==
    \/ \E images \in ImageTables, diffs \in DiffTables :
          pipeline_add_band(images, diffs)
    \/ pipeline_write

SpecPipeline == InitPipeline /\ [][NextPipeline]_vars

\* ------------------------------------------------------------------ claims
WfWritten == builder = "WfFormatWorkflow" /\ pc = "written"
YamlWritten == builder = "AbstractWorkflow" /\ pc = "written"

TaskFiles(t) == Range(t.inputFiles) \cup Range(t.outputFiles)
Feeds(t, u) == Range(t.outputFiles) \cap Range(u.inputFiles) # {}
NoRepeats(s) == \A i, j \in DOMAIN s : s[i] = s[j] => i = j

\* C1: after to_wfformat, T1's id is in parents(T2) iff T1 # T2 and some
\* output file of T1 is an input file of T2, also when several tasks declare
\* the same output file.
C1_ParentIffProduces ==
    WfWritten =>
        \A k1, k2 \in DOMAIN document.tasks :
            LET T1 == document.tasks[k1]
                T2 == document.tasks[k2]
            IN  (T1.id \in Range(T2.parents)) <=> (k1 # k2 /\ Feeds(T1, T2))

\* C2: when A produces files that B consumes and neither shares any other
\* file with any task, children(A) = [B.id] and parents(B) = [A.id], each id
\* once however many files are shared; no task is its own parent or child;
\* a task sharing files with no other task has no parents and no children.
OnlyLink(ts, a, b) ==
    /\ a # b
    /\ Feeds(ts[a], ts[b])
    /\ TaskFiles(ts[a]) \cap TaskFiles(ts[b])
           \subseteq (Range(ts[a].outputFiles) \ Range(ts[a].inputFiles))
                     \cap (Range(ts[b].inputFiles) \ Range(ts[b].outputFiles))
    /\ \A c \in DOMAIN ts \ {a, b} :
           /\ TaskFiles(ts[c]) \cap TaskFiles(ts[a]) = {}
           /\ TaskFiles(ts[c]) \cap TaskFiles(ts[b]) = {}

Isolated(ts, a) ==
    \A c \in DOMAIN ts \ {a} : TaskFiles(ts[c]) \cap TaskFiles(ts[a]) = {}

C3_TaskFilesRegistered ==
    /\ \A k \in DOMAIN tasks :
           \A f \in Range(tasks[k].inputs) \cup Range(tasks[k].outputs) :
               HasKey(files, f)
    /\ \A k \in DOMAIN specification_tasks :
           \A f \in TaskFiles(specification_tasks[k]) :
               \E i \in DOMAIN specification_files : specification_files[i].id = f

\* C4: the program one compilation returns has as many signals as the
\* document has registered files and as many processes as it has tasks.
C4_Counts ==
    \A n \in DOMAIN compilers :
        LET program == compilers[n].returned[1]
        IN  /\ Len(program.signals) = Len(document.files)
            /\ Len(program.processes) = Len(document.tasks)

C4_Witness ==
    /\ compilers # <<>>
    /\ Len(document.files) = 2
    /\ Len(document.tasks) = 2
    /\ Len(compilers[1].returned[1].signals) = 2
    /\ Len(compilers[1].returned[1].processes) = 2

\* C5: in every compiled program every signal id in a process's ins or outs
\* and in the program-level ins and outs is an integer in [0, |signals|),
\* also when a task names a file that is not registered.
InRange(ids, program) ==
    \A j \in DOMAIN ids : ids[j] \in 0..(Len(program.signals) - 1)

C5_SignalIdsInRange ==
    \A n \in DOMAIN compilers :
        \A r \in DOMAIN compilers[n].returned :
            LET program == compilers[n].returned[r]
            IN  /\ InRange(program.ins, program)
                /\ InRange(program.outs, program)
                /\ \A k \in DOMAIN program.processes :
                       /\ InRange(program.processes[k].ins, program)
                       /\ InRange(program.processes[k].outs, program)

\* a compiled abstract workflow one of whose tasks names an unregistered
\* file next to a registered one
C5_Witness ==
    /\ YamlWritten
    /\ compilers # <<>>
    /\ \E k \in DOMAIN document.tasks :
           /\ document.tasks[k].inputs = <<"x", "y">>
           /\ ~HasKey(document.files, "x")
           /\ HasKey(document.files, "y")
           /\ compilers[1].returned[1].processes[k].ins = <<0>>

C7_Scenario ==
    /\ Len(document.tasks) = 2
    /\ document.tasks[1].inputFiles = <<>>
    /\ document.tasks[1].outputFiles = <<"x">>
    /\ document.tasks[2].inputFiles = <<"x">>
    /\ document.tasks[2].outputFiles = <<"y">>

C7_SetDifferenceOutputs ==
    WfWritten =>
        \A n \in DOMAIN compilers :
            \A r \in DOMAIN compilers[n].returned :
                LET program == compilers[n].returned[r]
                    signal == compilers[n].c.file_to_signal
                    ts == document.tasks
                IN  /\ \A i \in DOMAIN document.files :
                           LET f == document.files[i].id
                           IN  (signal[f] \in Range(program.outs)) <=>
                                   /\ \E k \in DOMAIN ts : f \in Range(ts[k].outputFiles)
                                   /\ ~ \E k \in DOMAIN ts : f \in Range(ts[k].inputFiles)
                    /\ C7_Scenario => program.outs = <<signal["y"]>>

\* the scenario compiled, with neither file marked as an output
C7_Witness ==
    /\ WfWritten
    /\ C7_Scenario
    /\ wf_outputs = <<>>
    /\ compilers # <<>>
    /\ compilers[1].returned[1].outs = <<compilers[1].c.file_to_signal["y"]>>

\* C8: compiling an abstract workflow document, a file's signal is in the
\* program-level outs iff some task lists the file among its outputs and the
\* file's is_output flag is true; each such signal id is in outs once.
C8_ExplicitMarkOutputs ==
    YamlWritten =>
        \A n \in DOMAIN compilers :
            \A r \in DOMAIN compilers[n].returned :
                LET program == compilers[n].returned[r]
                    signal == compilers[n].c.file_to_signal
                    ts == document.tasks
                IN  /\ \A i \in DOMAIN document.files :
                           LET finfo == document.files[i]
                           IN  (signal[finfo.name] \in Range(program.outs)) <=>
                                   /\ \E k \in DOMAIN ts :
                                          finfo.name \in Range(ts[k].outputs)
                                   /\ finfo.is_output
                    /\ NoRepeats(program.outs)

\* a compiled document in which two tasks produce the flagged file x, and
\* the file y is produced but not flagged
C8_Witness ==
    /\ YamlWritten
    /\ compilers # <<>>
    /\ Len(document.tasks) = 2
    /\ document.tasks[1].outputs = <<"x", "y">>
    /\ document.tasks[2].outputs = <<"x">>
    /\ HasKey(document.files, "x") /\ Get(document.files, "x").is_output
    /\ HasKey(document.files, "y") /\ ~Get(document.files, "y").is_output
    /\ compilers[1].returned[1].outs = <<compilers[1].c.file_to_signal["x"]>>

\* C9: by either compiler path a file's signal is in the program-level ins
\* and carries exactly one data token iff the file was registered with
\* is_input true; all other signals carry no data.
Seeded(program, i) ==
    (i - 1) \in Range(program.ins) /\ program.signals[i].data = <<Token>>

Unseeded(program, i) ==
    (i - 1) \notin Range(program.ins) /\ program.signals[i].data = <<>>

C9_InputsAreFlaggedFiles ==
    \A n \in DOMAIN compilers :
        LET program == compilers[n].returned[1]
        IN  /\ builder = "AbstractWorkflow" =>
                \A i \in DOMAIN files :
                    IF files[i].is_input
                    THEN Seeded(program, i) ELSE Unseeded(program, i)
            /\ builder = "WfFormatWorkflow" =>
                \A i \in DOMAIN file_metadata :
                    IF file_metadata[i].is_input
                    THEN Seeded(program, i) ELSE Unseeded(program, i)

\* C10 as claimed: add_task leaves the is_output flag of every registered
\* file as it was, also for the files the new task lists as outputs.
AddTaskStep == builder = "AbstractWorkflow" /\ task_counter' = task_counter + 1

C10_NoAutoPromote ==
    [][AddTaskStep =>
          \A i \in DOMAIN files : files'[i].is_output = files[i].is_output]_vars

\* C10 as amended: add_task sets is_output on every registered file the new
\* task lists as an output, and leaves every other flag and field as it was.
C10_PromotesListedOutputs ==
    [][AddTaskStep =>
          /\ DOMAIN files' = DOMAIN files
          /\ \A i \in DOMAIN files :
                 files'[i] =
                     [files[i] EXCEPT !.is_output =
                         files[i].is_output
                         \/ files[i].name \in Range(tasks'[Len(tasks')].outputs)]]_vars

\* a sourced input, registered with is_output false and never passed to
\* mark_output, that carries the flag because a task lists it as an output
C10_Witness ==
    /\ builder = "AbstractWorkflow"
    /\ outputs = <<>>
    /\ \E i \in DOMAIN files :
           /\ files[i].source = "url"
           /\ files[i].is_output
           /\ \E k \in DOMAIN tasks : files[i].name \in Range(tasks[k].outputs)

\* ------------------------------------------------------------ re-registration
\* the add_file call promote == add_file(name, is_output=True) takes in the
\* current state, together with a condition on the state it leaves
YamlAddFileLeaves(name, a, Post(_, _)) ==
    ENABLED (/\ AbstractWorkflow_add_file(name, a[1], a[2], a[3])
             /\ Post(files', inputs'))

WfAddFileLeaves(name, a, Post(_, _, _)) ==
    ENABLED (/\ WfFormatWorkflow_add_file(name, a[1], a[2], a[3])
             /\ Post(specification_files', file_metadata', wf_outputs'))

Building == pc = "build"

YamlUnflagged(name) ==
    builder = "AbstractWorkflow" /\ Building
        /\ HasKey(files, name) /\ ~Get(files, name).is_output

WfUnflagged(name) ==
    builder = "WfFormatWorkflow" /\ Building
        /\ HasKey(file_metadata, name) /\ ~Get(file_metadata, name).is_output
        /\ name \notin Range(wf_outputs)

\* C11: add_file(name, is_output=True) on a name registered with is_output
\* false leaves the file promoted to output: its is_output flag is true in the
\* AbstractWorkflow, its name is in outputs in the WfFormatWorkflow.
C11_ReRegisterPromotes ==
    \A name \in FileNames :
        /\ YamlUnflagged(name) =>
              LET Promoted(fs, ins) == Get(fs, name).is_output
              IN  YamlAddFileLeaves(name, <<None, FALSE, TRUE>>, Promoted)
        /\ WfUnflagged(name) =>
              LET Promoted(sf, fm, outs) == name \in Range(outs)
              IN  WfAddFileLeaves(name, <<None, FALSE, TRUE>>, Promoted)

\* every argument combination of a repeated add_file call, blank source included
ReAddFileArgs == {None, "", "url", "url2"} \X BOOLEAN \X BOOLEAN

\* the AbstractWorkflow registry fs and inputs list ins keep every entry's
\* position, source and is_input, and gain no entry
YamlRegistryKept(fs, ins) ==
    /\ Len(fs) = Len(files)
    /\ \A i \in DOMAIN files :
          /\ fs[i].name = files[i].name
          /\ fs[i].source = files[i].source
          /\ fs[i].is_input = files[i].is_input
    /\ ins = inputs

WfRegistryKept(sf, fm, outs) ==
    /\ Len(sf) = Len(specification_files)
    /\ Len(fm) = Len(file_metadata)
    /\ \A i \in DOMAIN specification_files : sf[i].id = specification_files[i].id
    /\ \A i \in DOMAIN file_metadata :
          /\ fm[i].name = file_metadata[i].name
          /\ fm[i].source_url = file_metadata[i].source_url
          /\ fm[i].is_input = file_metadata[i].is_input

\* C12: add_file on an already registered name, whatever its arguments, leaves
\* the file's source locator, its is_input flag, its position in the registry
\* and the workflow's inputs list as they were, and adds no second entry.
C12_ReRegisterKeeps ==
    \A name \in FileNames, a \in ReAddFileArgs :
        /\ (builder = "AbstractWorkflow" /\ Building /\ HasKey(files, name))
              => YamlAddFileLeaves(name, a, YamlRegistryKept)
        /\ (builder = "WfFormatWorkflow" /\ Building
                /\ HasKey(file_metadata, name))
              => WfAddFileLeaves(name, a, WfRegistryKept)

\* y registered second, with a source and as an input, and registered again
\* with a blank source
C12_Witness ==
    /\ builder = "AbstractWorkflow" /\ Building
    /\ Len(files) = 2
    /\ files[2] = FileRecord("y", "url", TRUE, FALSE)
    /\ "y" \in Range(inputs)
    /\ YamlAddFileLeaves("y", <<"", FALSE, TRUE>>, YamlRegistryKept)

\* ------------------------------------------------------------------ task ids
Ids(ts) == [k \in DOMAIN ts |-> ts[k].id]

\* ids as add_task hands them out: task_0, task_1, ... / ID000000, ID000001, ...
CountsUp(ids, prefix) ==
    /\ \A k \in DOMAIN ids : ids[k][1] = prefix
    /\ Len(ids) > 0 => ids[1][2] = 0
    /\ \A j, k \in DOMAIN ids : j < k => ids[j][2] < ids[k][2]

\* the ids handed out so far stay where they are in the sequence
KeepsIds(old, new) ==
    /\ Len(new) >= Len(old)
    /\ \A k \in DOMAIN old : new[k] = old[k]

C13_Step ==
    /\ CountsUp(Ids(tasks'), "task_")
    /\ CountsUp(Ids(specification_tasks'), "ID")
    /\ KeepsIds(Ids(tasks), Ids(tasks'))
    /\ KeepsIds(Ids(specification_tasks), Ids(specification_tasks'))
    /\ task_counter' # task_counter =>
          /\ wf_task_counter' = wf_task_counter
          /\ specification_tasks' = specification_tasks
    /\ wf_task_counter' # wf_task_counter =>
          /\ task_counter' = task_counter
          /\ tasks' = tasks

IndexOf(lst, name) == CHOOSE i \in DOMAIN lst : lst[i] = name
Names(fs) == [i \in DOMAIN fs |-> fs[i].name]

\* lst holds exactly the names in S, once each, in the order of the registry fs
ListsInRegistrationOrder(lst, S, fs) ==
    /\ Range(lst) = S
    /\ NoRepeats(lst)
    /\ \A a, b \in DOMAIN lst :
          a < b => IndexOf(Names(fs), lst[a]) < IndexOf(Names(fs), lst[b])

ConsumedBySomeTask(name) ==
    \E k \in DOMAIN tasks : name \in Range(tasks[k].inputs)

\* C14: the outputs of the document AbstractWorkflow.to_dict returns are
\* exactly the files whose is_output is true and that are in no task's inputs
\* or were marked with mark_output, in file-registration order.
C14_DocumentOutputs ==
    YamlWritten =>
        ListsInRegistrationOrder(
            document.outputs,
            {files[i].name : i \in {j \in DOMAIN files :
                /\ files[j].is_output
                /\ \/ ~ConsumedBySomeTask(files[j].name)
                   \/ files[j].name \in Range(outputs)}},
            files)

\* y registered before x; x is consumed by a task and marked, y is an
\* unconsumed flagged file: the document lists y, then x
C14_Witness ==
    /\ YamlWritten
    /\ Names(files) = <<"y", "x">>
    /\ ConsumedBySomeTask("x") /\ "x" \in Range(outputs)
    /\ ~ConsumedBySomeTask("y") /\ "y" \notin Range(outputs)
    /\ document.outputs = <<"y", "x">>

\* C15 as stated: the inputs list of the abstract workflow document holds
\* exactly the files whose is_input flag is true, in registration order.
C15_InputsAreFlagged ==
    YamlWritten =>
        ListsInRegistrationOrder(
            document.inputs,
            {files[i].name : i \in {j \in DOMAIN files : files[j].is_input}},
            files)

\* C15: the inputs list of the abstract workflow document holds exactly the
\* files registered with is_input true and a non-empty source locator, in
\* registration order.
C15_InputsAreSourcedInputs ==
    YamlWritten =>
        ListsInRegistrationOrder(
            document.inputs,
            {files[i].name : i \in {j \in DOMAIN files :
                files[j].is_input /\ Truthy(files[j].source)}},
            files)

\* y is registered first as an input with a source, x as an input without one
C15_Witness ==
    /\ YamlWritten
    /\ document.files = <<FileRecord("y", "url", TRUE, FALSE),
                          FileRecord("x", None, TRUE, FALSE)>>
    /\ document.inputs = <<"y">>

\* ------------------------------------------------------------------ validators
ValidatorRan == validator.state # "new"
ToolRan == validation.state = "returned"

NotAList(field) == field.type \notin {"absent", "list"}

\* the malformations of a document: not a mapping (or not parseable at all),
\* a files section that is not a mapping, a task that is not a record, an
\* inputs or outputs field that is not a list
Malformed(w) ==
    \/ w.type # "dict"
    \/ w.files.type \notin {"absent", "dict"}
    \/ \E k \in DOMAIN w.tasks.v :
          \/ w.tasks.v[k].type # "dict"
          \/ NotAList(w.tasks.v[k].inputs)
          \/ NotAList(w.tasks.v[k].outputs)

\* C16: the validator never raises: on any document, malformed ones
\* included, validation returns, and a malformed document has an entry in the
\* errors list (for the MCP tool: is never reported valid).
C16_NeverRaises ==
    /\ ValidatorRan =>
          /\ validator.state = "returned"
          /\ Malformed(workflow_file) => validator.errors # <<>>
    /\ ToolRan =>
          (Malformed(workflow_file) => ~validation.valid)

\* the finding f is in the list exactly once
ListedOnce(lst, f) == Cardinality({i \in DOMAIN lst : lst[i] = f}) = 1

\* the structural defects of a well-typed document, each as the error entry
\* that reports it: a missing top-level field, a task without its inputs
\* field, a reference to a file the files section lacks, a repeated task id
StructuralDefects(w) ==
    LET ts == GetTasks(w).v
        registered == Keys(GetFiles(w))
    IN  {Finding("workflow", "Missing required field", 0, field) :
            field \in {f \in {"name", "files", "tasks"} : ~TopHas(w, f)}}
        \cup {Finding("task", "missing field", k - 1, "inputs") :
                 k \in {j \in DOMAIN ts : ts[j].inputs.type = "absent"}}
        \cup UNION {{Finding("task", "references undefined input file",
                             k - 1, name) :
                        name \in Range(GetList(ts[k].inputs).v) \ registered} :
                    k \in DOMAIN ts}
        \cup UNION {{Finding("task", "references undefined output file",
                             k - 1, name) :
                        name \in Range(GetList(ts[k].outputs).v) \ registered} :
                    k \in DOMAIN ts}
        \cup {Finding("task", "Duplicate task ID", k - 1, ts[k].id) :
                 k \in {j \in DOMAIN ts : \E i \in 1..(j - 1) :
                                              ts[i].id = ts[j].id}}

\* C17: validation accumulates: on a document whose defects are structural
\* (missing required fields, dangling input and output references, duplicate
\* task ids) validate returns, its errors list has one entry for each defect,
\* the result is valid exactly when the errors list is empty, whatever the
\* warnings.
C17_Accumulates ==
    (ValidatorRan /\ ~Malformed(workflow_file)) =>
        /\ validator.state = "returned"
        /\ \A f \in StructuralDefects(workflow_file) :
              ListedOnce(validator.errors, f)
        /\ validator.valid <=> validator.errors = <<>>

\* a document without a name whose second task repeats the id of the first
\* and refers to an unknown input and an unknown output: four defects, four
\* entries, and warnings besides
C17_Witness ==
    /\ validator.state = "returned"
    /\ ~Malformed(workflow_file)
    /\ Cardinality(StructuralDefects(workflow_file)) = 4
    /\ ~TopHas(workflow_file, "name")
    /\ Len(workflow_file.tasks.v) = 2
    /\ workflow_file.tasks.v[2] =
          [type |-> "dict", id |-> workflow_file.tasks.v[1].id,
           inputs |-> ListOf(<<"z">>), outputs |-> ListOf(<<"z">>)]
    /\ Len(validator.errors) = 4
    /\ validator.warnings # <<>>
    /\ ~validator.valid

\* some task lists the file among its inputs or its outputs
Referenced(w, name) == name \in UsedFiles(GetTasks(w).v)

NeverUsed(name) == Finding("file", "is defined but never used", 0, name)

ValidatorWarnsUnused ==
    validator.state = "returned" =>
        \A name \in Keys(GetFiles(workflow_file)) :
            NeverUsed(name) \in Range(validator.warnings)
                <=> ~Referenced(workflow_file, name)

ToolWarnsUnused ==
    validation.text = "Validation Results" =>
        \A name \in Keys(GetFiles(workflow_file)) :
            NeverUsed(name) \in Range(validation.warnings)
                <=> ~Referenced(workflow_file, name)

\* C18: a validator that has gone through a document warns "File '<name>' is
\* defined but never used" for a registered file iff no task lists the file
\* among its inputs or its outputs.
C18_UnusedFileWarning == ValidatorWarnsUnused /\ ToolWarnsUnused

\* ---------------------------------------- external tool failure (Pipeline)
FailedTools == {i \in DOMAIN events : /\ events[i].kind = "tool"
                                      /\ events[i].status # 0}
DocumentsWritten ==
    {i \in DOMAIN events :
        /\ events[i].kind = "write"
        /\ events[i].name \in {"montage-workflow.yml", "montage-workflow.json",
                               "rc.txt"}}

\* C19: once an external tool (mArchiveList, mDAGTbls, mOverlaps) has returned
\* a nonzero status the generator has exited with status 1, that invocation is
\* the last thing it did (no later tool, no further file or task), and neither
\* the workflow document nor the replica catalog has been written.
C19_ToolFailureExits ==
    \A i \in FailedTools :
        /\ i = Len(events)
        /\ generator.exited
        /\ generator.status = 1
        /\ DocumentsWritten = {}

\* the second band's mOverlaps fails after the whole first band was added
C19_Witness ==
    /\ \E i \in FailedTools : events[i].name = "mOverlaps" /\ events[i].band = 2
    /\ \E i \in DOMAIN events : events[i] = AddTaskCall("mViewer", 1, 0)
    /\ generator.script = "montage-workflow-wfformat.py"

\* ------------------------------------------------ atomicity of the writers
\* the output file is no longer what it was when the operation was called
OutputTouched == writer.op # "" /\ out_file # writer.before

\* C20: every compile-and-write operation creates or truncates its output file
\* only after the document to be written has been computed, so an operation
\* that failed while parsing or compiling has left the output file as it was.
C20_WriteAtomic ==
    /\ OutputTouched => writer.computed
    /\ writer.failed => ~OutputTouched

\* ------------------------------------------------------ read-only traversals
\* a step that runs to_dict / to_wfformat (inside write), a compile(), or one
\* of the validators
WriteStep == pc = "build" /\ pc' = "written"
CompileStep == compilers' # compilers
ValidateStep == validator' # validator \/ validation' # validation

\* the input document as a compiler instance holds it
InputOf(c) ==
    IF builder = "AbstractWorkflow" THEN <<c.files, c.tasks>>
    ELSE <<c.spec_files, c.spec_tasks>>
InputOfDocument ==
    IF builder = "AbstractWorkflow"
    THEN InputOf(HyperFlowCompiler_init(document))
    ELSE InputOf(WfFormatToHyperFlowCompiler_init(document))

C21_Step ==
    /\ WriteStep => yamlVars' = yamlVars /\ wfVars' = wfVars
    /\ CompileStep =>
          /\ yamlVars' = yamlVars /\ wfVars' = wfVars /\ document' = document
          /\ \A n \in DOMAIN compilers' :
                InputOf(compilers'[n].c) = InputOfDocument
    /\ ValidateStep => workflow_file' = workflow_file

\* C21: to_wfformat, to_dict, either compile and a validator run leave the
\* Graph Model or input document (file registry, task sequence, every field of
\* every task record) identical to its state before the call.
C21_ReadOnly == [][C21_Step]_vars

\* ------------------------------------------------------- signal identities
\* the registered file names and the tasks' declared lists of the written
\* document, whichever builder wrote it
DocFileNames ==
    [i \in DOMAIN document.files |->
        IF document.format = "yaml" THEN document.files[i].name
        ELSE document.files[i].id]
DeclaredInputs(k) ==
    IF document.format = "yaml" THEN document.tasks[k].inputs
    ELSE document.tasks[k].inputFiles
DeclaredOutputs(k) ==
    IF document.format = "yaml" THEN document.tasks[k].outputs
    ELSE document.tasks[k].outputFiles

\* ids lists, in the order of lst, the zero-based registration index of every
\* name of lst that is registered
ListsRegistrationIndexes(ids, lst) ==
    LET registered == SelectSeq(lst, LAMBDA f : f \in Range(DocFileNames))
    IN  /\ Len(ids) = Len(registered)
        /\ \A j \in DOMAIN ids : DocFileNames[ids[j] + 1] = registered[j]

\* C22: the i-th registered file (zero-based) has signal id i and signals[i]
\* carries its name; process k is task k, its ins and outs listing the signal
\* ids of the task's declared inputs and outputs in the declared order.
C22_SignalIdentity ==
    \A n \in DOMAIN compilers :
        LET program == compilers[n].returned[1]
            file_to_signal == compilers[n].c.file_to_signal
        IN  /\ DOMAIN file_to_signal = Range(DocFileNames)
            /\ \A i \in DOMAIN DocFileNames :
                  /\ file_to_signal[DocFileNames[i]] = i - 1
                  /\ program.signals[i].name = DocFileNames[i]
            /\ \A k \in DOMAIN document.tasks :
                  /\ ListsRegistrationIndexes(program.processes[k].ins,
                                              DeclaredInputs(k))
                  /\ ListsRegistrationIndexes(program.processes[k].outs,
                                              DeclaredOutputs(k))

\* y registered before x, and a task that declares x then y as its inputs
C22_Witness ==
    /\ YamlWritten
    /\ compilers # <<>>
    /\ DocFileNames = <<"y", "x">>
    /\ \E k \in DOMAIN document.tasks :
          /\ DeclaredInputs(k) = <<"x", "y">>
          /\ compilers[1].returned[1].processes[k].ins = <<1, 0>>

\* --------------------------------------------------------- batch downloader
\* the entry the downloader is working on
CurrentEntry == downloader.remote_entries[downloader.i]

\* a step that fetches: the log of downloads grows by one
FetchStep == Len(fetched') = Len(fetched) + 1
\* a step that decompresses
DecompressStep == downloader.pc = "decompress" /\ downloader' # downloader

C23_Step ==
    /\ FetchStep =>
          LET made == fetched'[Len(fetched')]
          IN  /\ made.entry.pool # "local"
              /\ EndsWithGz(made.entry.url) =>
                    made.path = made.entry.filename \o <<"gz">>
    /\ DecompressStep =>
          LET temp == CurrentEntry.filename \o <<"gz">>
              succeeded == disk[temp] = "gzip"
          IN  /\ EndsWithGz(CurrentEntry.url)
              /\ succeeded => disk'[CurrentEntry.filename] = "data"
              /\ \A p \in Paths \ {temp, CurrentEntry.filename} :
                    disk'[p] = disk[p]
              /\ disk'[temp] = "absent" <=> succeeded

\* C23: the batch downloader never fetches an entry whose pool is local; an
\* entry whose URL ends in .gz is downloaded to <filename>.gz, decompressed
\* into the file named exactly by the catalog filename (also when that name
\* itself ends in .gz), and the compressed file is removed if and only if
\* the decompression succeeded.
C23_Downloader == [][C23_Step]_vars

\* a catalog with a local entry that was passed over, and an entry named
\* a.fits.gz that was decompressed into a.fits.gz, a.fits.gz.gz removed
C23_Witness ==
    /\ downloader.pc = "done"
    /\ \E k \in DOMAIN downloader.entries : downloader.entries[k].pool = "local"
    /\ \E k \in DOMAIN fetched :
          /\ fetched[k].entry.filename = <<"a", "fits", "gz">>
          /\ fetched[k].path = <<"a", "fits", "gz", "gz">>
    /\ disk[<<"a", "fits", "gz">>] = "data"
    /\ disk[<<"a", "fits", "gz", "gz">>] = "absent"
    /\ downloader.success_count = 1

\* ------------------------------------------------ generate_montage_workflow
Succeeded ==
    /\ server.pc = "returned"
    /\ server.result = "Successfully generated Montage workflow"

\* the workflow documents the call saved
SavedDocuments ==
    {f \in workflow_dir :
        f.file \in {"workflow-wfformat.json", "workflow.json", "workflow.yml"}}

\* C24: every workflow document a generate_montage_workflow call produces has
\* the name given as workflow_name, and 'montage' when the argument is omitted.
C24_WorkflowName ==
    Succeeded =>
        \A f \in SavedDocuments :
            f.name = IF server.args.workflow_name = Absent THEN "montage"
                     ELSE server.args.workflow_name

\* the auxiliary files of the workflow directory
AuxiliaryFiles ==
    {f.file : f \in workflow_dir \ SavedDocuments} \ {"WORKFLOW-INFO.txt"}

\* the auxiliary files a successful call with this output_format leaves
AuxiliaryFilesFor(output_format) ==
    DataDir(GeneratorsFor(output_format)[1].script, server.args.bands)
        \ WorkflowFiles

\* C30: a workflow directory reported as successfully generated holds the same
\* auxiliary files whichever output_format was requested, among them the
\* replica catalog rc.txt that WORKFLOW-INFO.txt tells the user to download from.
C30_SameAuxiliaryFiles ==
    Succeeded =>
        /\ "rc.txt" \in AuxiliaryFiles
        /\ \A output_format \in {"both", "yaml", "wfformat", "hyperflow"} :
              AuxiliaryFiles = AuxiliaryFilesFor(output_format)

\* ------------------------------------------------ parents against children
\* C25: in the document to_wfformat returns, B's id is among the children of
\* A if and only if A's id is among the parents of B, also when several tasks
\* declare the same output file.
C25_ParentChildSymmetric ==
    WfWritten =>
        \A a, b \in DOMAIN document.tasks :
            b # a =>
               (document.tasks[b].id \in Range(document.tasks[a].children)
                <=> document.tasks[a].id \in Range(document.tasks[b].parents))

\* ----------------------------------------- program outputs (HyperFlowCompiler)
\* every file a task names was registered with add_file before the task was
\* added: it is in the registry and, for an output, add_task has set its flag
TaskFilesRegisteredFirst ==
    \A k \in DOMAIN document.tasks :
        /\ \A f \in Range(document.tasks[k].inputs) : HasKey(document.files, f)
        /\ \A f \in Range(document.tasks[k].outputs) :
              HasKey(document.files, f) /\ Get(document.files, f).is_output

\* the signal ids of the names of the document's outputs list
DocumentOutputIds ==
    {IndexOf(Names(document.files), document.outputs[j]) - 1 :
        j \in DOMAIN document.outputs}

\* C26: for an AbstractWorkflow whose files were registered before the tasks
\* that use them, the program-level outs HyperFlowCompiler computes are exactly
\* the signal ids of the names in the outputs list to_dict computed; an
\* intermediate file never passed to mark_output is not among them.
C26_OutsAreDocumentOutputs ==
    YamlWritten /\ TaskFilesRegisteredFirst =>
        \A n \in DOMAIN compilers :
            Range(compilers[n].returned[1].outs) = DocumentOutputIds

\* ------------------------------------------------------- repeated compile()
\* C27: a second compile() on the same compiler instance, the input
\* unchanged, returns a program equal to the one the first call returned.
C27_RecompileEqual ==
    \A n \in DOMAIN compilers :
        \A r \in DOMAIN compilers[n].returned :
            compilers[n].returned[r] = compilers[n].returned[1]

\* ------------------------------------------------ the pipeline's stage chain
\* the image names of one band's tables
TableNames(t) ==
    Range(t.images) \cup {t.diffs[j][1] : j \in DOMAIN t.diffs}
                    \cup {t.diffs[j][2] : j \in DOMAIN t.diffs}

\* no image file name occurs in more than one band's tables
BandsDisjoint ==
    \A b, c \in DOMAIN pipeline.tables :
        b # c => TableNames(pipeline.tables[b])
                     \cap TableNames(pipeline.tables[c]) = {}

\* the position of a task's executable in the stage chain
StageRank(executable) ==
    CHOOSE r \in DOMAIN add_band_stages : add_band_stages[r] = executable

TaskWithId(id) ==
    pipeline.tasks[CHOOSE k \in DOMAIN pipeline.tasks : pipeline.tasks[k].id = id]

\* C28: in the specification compiled from a pipeline-built workflow whose
\* bands share no image file name, every parent of a task was created before
\* the task (smaller task id) and belongs to an earlier stage of the chain
\* reprojection, difference fitting, model fitting, background modelling,
\* background correction, table rebuild, mosaic assembly, rendering.
C28_ParentsComeFirst ==
    pipeline.pc = "written" /\ BandsDisjoint =>
        \A k \in DOMAIN pipeline.tasks :
            \A j \in DOMAIN pipeline.tasks[k].parents :
                LET parent == TaskWithId(pipeline.tasks[k].parents[j])
                    task == pipeline.tasks[k]
                IN  /\ parent.id[2] < task.id[2]
                    /\ StageRank(parent.name) < StageRank(task.name)

\* three bands with the colour image, the first with an image and a
\* difference, the second with another image
C28_Witness ==
    /\ pipeline.pc = "written"
    /\ BandsDisjoint
    /\ Len(pipeline.tables) = 3
    /\ pipeline.tables[1].images = <<"a">>
    /\ Len(pipeline.tables[1].diffs) = 1
    /\ pipeline.tables[2].images = <<"b">>
    /\ \E k \in DOMAIN pipeline.tasks :
          /\ pipeline.tasks[k].outputFiles = <<File("mosaic-color.png", 0, NoKey)>>
          /\ Len(pipeline.tasks[k].parents) = 3
    /\ \E k \in DOMAIN pipeline.tasks :
          /\ pipeline.tasks[k].name = "mDiffFit"
          /\ Len(pipeline.tasks[k].parents) = 1


\* ---- C29: the two validators agree on validity
\* For every parsed workflow document on which both validators have run, the
\* MCP tool validate_workflow reports the document valid exactly when
\* WorkflowValidator.validate returned true.
Parsed == workflow_file.type # "yaml_error"

C29_ValidatorsAgree ==
    (ValidatorRan /\ ToolRan /\ Parsed) =>
        (validation.valid <=> (validator.state = "returned" /\ validator.valid))

====
